---- MODULE Spec2Model ----
(***************************************************************************)
(* Model of the notification dispatcher: NotificationService (dispatch     *)
(* engine and background sweep), DatabaseService (the notifications and    *)
(* notification_preferences tables), the bulk endpoint of                  *)
(* NotificationController, and the parts of TemplateService,               *)
(* GoogleWorkspaceEmailService and MessageQueueService that a dispatch     *)
(* calls.  Every await of the source is a separate step, so that dispatches*)
(* interleave as they do on the event loop.                                *)
(***************************************************************************)
EXTENDS Integers, Sequences, FiniteSets, TLC

VARIABLES
  now,                 \* wall clock (NOW() of the database, new Date() of the service)
  notifications,       \* the notifications table: row i has id i
  preferences,         \* the notification_preferences table: a set of rows
  googleEmailService,  \* NotificationService.googleEmailService: "null" or "ready"
  calls,               \* activations of NotificationService.sendNotification
  sweeps,              \* activations of NotificationService.processPendingNotifications
  bulk,                \* the activation of NotificationController.sendBulkNotifications
  faults,              \* failures of the database, the bus and the mail transport so far
  processingInterval,  \* NotificationService.processingInterval: "null" or "set"
  ticks,               \* the callbacks of the sweep timer
  shutdown,            \* the position of NotificationService.close()
  mq,                  \* MessageQueueService: connection, channel and reconnect loop
  deliveries,          \* the messages the bus delivered to the consumers
  mailer,              \* GoogleWorkspaceEmailService: token, transporter, sendEmail activations
  reads                \* answers of NotificationController.getNotificationPreferences

\* The state of the dispatch engine, its tables and its callers.
engineVars == <<now, notifications, preferences, googleEmailService, calls, sweeps, bulk, faults>>
\* The sweep timer.
timerVars == <<processingInterval, ticks, shutdown>>
\* The message bus client.
busVars == <<mq, deliveries>>
\* The email channel transport.
emailVars == <<mailer>>
\* The preferences read endpoint.
readVars == <<reads>>
\* The state a step of the dispatch engine leaves alone.
serviceVars == <<timerVars, busVars, emailVars, readVars>>

vars == <<engineVars, serviceVars>>

----------------------------------------------------------------------------
(* Bounds of the model *)

\* Total number of sendNotification activations (API, bulk and sweep together).
MaxCalls == 3
\* Number of requests submitted to the single-send endpoint.
MaxApi == 1
\* Number of items of a bulk request.
MaxBulk == 2
\* Number of rows the notifications table holds when the service starts.
MaxRows == 2
\* Number of failures of external services (database, bus, mail transport) in a run.
MaxFaults == 2
\* The clock runs from 0 to MaxTime.
MaxTime == 1
\* Number of timer ticks that pull a page, where the ticks that fail are counted.
MaxSweeps == 1
\* Number of sendEmail activations followed step by step.
MaxMails == 1
\* Connections the bus loses.
MaxOutages == 2
\* Attempts of one reconnect loop that are told apart.
MaxAttempts == 2
\* Messages the consumers receive.
MaxDeliveries == 1
\* Reads of the preferences endpoint.
MaxReads == 2
\* Timer ticks that pull a page while earlier ticks are still dispatching.
MaxTicks == 2
\* Number of due rows of a backlog smaller than a batch.
MaxBacklog == 3

----------------------------------------------------------------------------
(* Values *)

NULL == 0 - 1                 \* SQL NULL / undefined for a timestamp
NoId == 0                     \* request.id undefined; rendered 'unknown' in a response
Undefined == "undefined"      \* an absent string field

Users == {"U1"}
Tenants == {"T1"}
Types == {"work_item_assigned"}
Priorities == {"low", "medium", "high", "critical"}

\* The required variables of the templates registered by initializeDefaultTemplates.
templates ==
  [ work_item_assigned |->
      {"assigneeName", "workItemTitle", "workItemType", "priority",
       "workItemUrl", "organizationName"},
    approval_requested |->
      {"approverName", "requestedBy", "workItemTitle", "workItemType",
       "approvalType", "approvalDeadline", "approvalUrl", "organizationName"},
    escalation_triggered |->
      {"escalatedToName", "workItemTitle", "originalAssignee", "escalationReason",
       "slaBreachDuration", "escalationLevel", "workItemUrl", "organizationName"},
    daily_digest |->
      {"recipientName", "totalWorkItems", "completedToday", "overdueItems",
       "criticalItems", "dashboardUrl", "organizationName"} ]

\* Error messages of the source.
ErrTemplateNotFound == "Template not found"
ErrMissingVariables == "Missing required template variables"
ErrUnsupportedChannel == "Unsupported notification channel"
ErrEmailNotConfigured == "Google Workspace email service not configured"
ErrDatabase == "database error"
ErrPublish == "publish error"
ErrTransport == "mail transport error"
NoError == ""

----------------------------------------------------------------------------
(* TemplateService *)

\* validateTemplateData: the required variables that data does not carry.
validateTemplateData(templateId, data) == templates[templateId] \ data

\* compileTemplate: the error it throws, or NoError when it returns a rendering.
compileTemplate(templateId, data) ==
  IF templateId \notin DOMAIN templates THEN ErrTemplateNotFound
  ELSE IF validateTemplateData(templateId, data) # {} THEN ErrMissingVariables
  ELSE NoError

----------------------------------------------------------------------------
(* Preference filter *)

\* A filter that looks at the global channel switches only.
shouldSendNotificationGlobalOnly(request, prefs) ==
  CASE request.channel = "email" -> prefs.emailNotifications
    [] request.channel = "in_app" -> prefs.inAppNotifications
    [] request.channel = "sms" -> prefs.smsNotifications
    [] request.channel = "push" -> prefs.pushNotifications
    [] OTHER -> TRUE

\* NotificationService.shouldSendNotification
shouldSendNotification(request, prefs) ==
  LET hasType == request.type \in DOMAIN prefs.notificationTypes
      typePrefs == prefs.notificationTypes[request.type]
  IN  IF hasType /\ ~typePrefs.enabled THEN FALSE
      ELSE IF hasType /\ request.channel \notin typePrefs.channels THEN FALSE
      ELSE CASE request.channel = "email" -> prefs.emailNotifications
             [] request.channel = "in_app" -> prefs.inAppNotifications
             [] request.channel = "sms" -> prefs.smsNotifications
             [] request.channel = "push" -> prefs.pushNotifications
             [] OTHER -> TRUE

----------------------------------------------------------------------------
(* DatabaseService *)

\* The row INSERTed by saveNotification: status takes the column default 'pending',
\* scheduled_at is notification.scheduledAt || new Date(), metadata is
\* JSON.stringify(notification.metadata || {}).
NewRow(id, request) ==
  [ id |-> id,
    tenantId |-> request.tenantId,
    recipientId |-> request.recipientId,
    type |-> request.type,
    channel |-> request.channel,
    priority |-> request.priority,
    templateId |-> request.templateId,
    data |-> request.data,
    scheduledAt |-> IF request.scheduledAt = NULL THEN now ELSE request.scheduledAt,
    expiresAt |-> request.expiresAt,
    metadata |-> IF request.metadata = Undefined THEN "{}" ELSE request.metadata,
    status |-> "pending",
    sentAt |-> NULL,
    deliveredAt |-> NULL,
    failedAt |-> NULL,
    error |-> Undefined,
    messageId |-> Undefined,
    trackingId |-> Undefined ]

\* saveNotification: always an INSERT, whatever notification.id is; the new id is
\* returned.
saveNotification(request) ==
  Append(notifications, NewRow(Len(notifications) + 1, request))

\* An UPDATE that also writes the data column, from a response that has none.
updateNotificationStatusAndData(notificationId, response) ==
  [ i \in DOMAIN notifications |->
      IF notifications[i].id = notificationId
      THEN [ notifications[i] EXCEPT
               !.status = response.status,
               !.sentAt = response.sentAt,
               !.deliveredAt = response.deliveredAt,
               !.failedAt = response.failedAt,
               !.error = response.error,
               !.messageId = response.messageId,
               !.trackingId = response.trackingId,
               !.data = {} ]
      ELSE notifications[i] ]

\* updateNotificationStatus: UPDATE ... WHERE id = notificationId.
updateNotificationStatus(notificationId, response) ==
  [ i \in DOMAIN notifications |->
      IF notifications[i].id = notificationId
      THEN [ notifications[i] EXCEPT
               !.status = response.status,
               !.sentAt = response.sentAt,
               !.deliveredAt = response.deliveredAt,
               !.failedAt = response.failedAt,
               !.error = response.error,
               !.messageId = response.messageId,
               !.trackingId = response.trackingId ]
      ELSE notifications[i] ]

\* getNotificationPreferences: result.rows of SELECT ... WHERE user_id = $1 AND
\* tenant_id = $2; the empty set is the null the method returns.
getNotificationPreferences(userId, tenantId) ==
  { row \in preferences : row.userId = userId /\ row.tenantId = tenantId }

\* The priority column is VARCHAR: ORDER BY priority compares the texts.  The
\* letters of each priority, as their positions in the alphabet.
PriorityText ==
  [ low |-> <<12, 15, 23>>,
    medium |-> <<13, 5, 4, 9, 21, 13>>,
    high |-> <<8, 9, 7, 8>>,
    critical |-> <<3, 18, 9, 20, 9, 3, 1, 12>> ]

RECURSIVE TextLess(_, _)
\* Lexicographic comparison of two texts.
TextLess(a, b) ==
  IF b = <<>> THEN FALSE
  ELSE IF a = <<>> THEN TRUE
  ELSE IF Head(a) # Head(b) THEN Head(a) < Head(b)
  ELSE TextLess(Tail(a), Tail(b))

\* ORDER BY priority DESC, scheduled_at ASC: row a may not come after row b.
OrderedBefore(a, b) ==
  \/ TextLess(PriorityText[b.priority], PriorityText[a.priority])
  \/ a.priority = b.priority /\ a.scheduledAt <= b.scheduledAt

\* A WHERE clause that looks at the status only.
IsPending(row) == row.status = "pending"

\* WHERE status = 'pending' AND scheduled_at <= NOW()
\*   AND (expires_at IS NULL OR expires_at > NOW())
IsPendingDue(row) ==
  /\ row.status = "pending"
  /\ row.scheduledAt <= now
  /\ (row.expiresAt = NULL \/ row.expiresAt > now)

\* The request object built from a row by getPendingNotifications.
RowRequest(row) ==
  [ id |-> row.id,
    tenantId |-> row.tenantId,
    recipientId |-> row.recipientId,
    type |-> row.type,
    channel |-> row.channel,
    priority |-> row.priority,
    templateId |-> row.templateId,
    data |-> row.data,
    scheduledAt |-> row.scheduledAt,
    expiresAt |-> row.expiresAt,
    metadata |-> row.metadata ]

\* The first n elements of a sequence (LIMIT n).
Limit(s, n) == SubSeq(s, 1, IF Len(s) < n THEN Len(s) ELSE n)

RECURSIVE Orderings(_)
\* The sequences that hold each row id of a set once and respect the ORDER BY:
\* a row comes first when no other row has to come before it.
Orderings(ids) ==
  IF ids = {} THEN { <<>> }
  ELSE UNION { { <<first>> \o rest : rest \in Orderings(ids \ {first}) } :
               first \in { i \in ids :
                             \A j \in ids :
                               OrderedBefore(notifications[i], notifications[j]) } }

\* The ids of the rows the WHERE clause of getPendingNotifications selects.
PendingDue == { i \in DOMAIN notifications : IsPendingDue(notifications[i]) }

\* The number of rows getPendingNotifications(limit) returns.
PageSize(limit) ==
  IF Cardinality(PendingDue) < limit THEN Cardinality(PendingDue) ELSE limit

\* getPendingNotifications(limit): the possible results of the query.  Rows that
\* compare equal under the ORDER BY come in an order the database chooses.
getPendingNotifications(limit) ==
  { Limit([ k \in DOMAIN s |-> RowRequest(notifications[s[k]]) ], limit) :
      s \in Orderings(PendingDue) }

----------------------------------------------------------------------------
(* NotificationService.sendNotification *)

Response(id, status, sentAt, failedAt, error, messageId) ==
  [ id |-> id, status |-> status, sentAt |-> sentAt, deliveredAt |-> NULL,
    failedAt |-> failedAt, error |-> error, messageId |-> messageId,
    trackingId |-> messageId ]

\* The value of a response variable that is not assigned yet.
NoResponse == Response(NoId, "none", NULL, NULL, Undefined, Undefined)

\* An activation of sendNotification at its entry.  `at` is the time of the call
\* and entryId the id the request came with; pc is the await the activation
\* stands at; error is the exception the catch block caught, raised at raisedAt;
\* transport counts the channel transports invoked (sendEmail, or a stub) and
\* transportAt is the time of the last one; event is the routing key published;
\* outcome says whether the promise is pending, fulfilled with `returned`, or
\* rejected.
NewCall(caller, request) ==
  [ caller |-> caller,
    at |-> now,
    entryId |-> request.id,
    request |-> request,
    pc |-> "save",
    notificationId |-> NoId,
    filter |-> "none",
    response |-> NoResponse,
    error |-> NoError,
    raisedAt |-> "none",
    updateRaised |-> FALSE,
    transport |-> 0,
    transportAt |-> NULL,
    event |-> Undefined,
    outcome |-> "pending",
    returned |-> NoResponse ]

\* `throw` inside the try block: control passes to the catch block.
Throw(call, at, message) ==
  [ call EXCEPT !.pc = "catch", !.error = message, !.raisedAt = at ]

\* `return response`
Return(call, response) ==
  [ call EXCEPT !.pc = "done", !.outcome = "fulfilled", !.returned = response ]

\* An exception leaving sendNotification.
Reject(call, message) ==
  [ call EXCEPT !.pc = "done", !.outcome = "rejected", !.error = message ]

\* An external service (database, bus, mail transport) fails in this step.
Fault == faults < MaxFaults /\ faults' = faults + 1

\* The external service of this step answers.
NoFault == faults' = faults

\* Lines 157-159: await saveNotification(request); request.id = notificationId.
Save(c) ==
  /\ calls[c].pc = "save"
  /\ \/ /\ NoFault
        /\ notifications' = saveNotification(calls[c].request)
        /\ calls' = [ calls EXCEPT
                        ![c].notificationId = Len(notifications) + 1,
                        ![c].request.id = Len(notifications) + 1,
                        ![c].pc = "preferences" ]
     \/ /\ Fault
        /\ calls' = [ calls EXCEPT ![c] = Throw(@, "save", ErrDatabase) ]
        /\ UNCHANGED notifications
  /\ UNCHANGED <<now, preferences, googleEmailService, sweeps, bulk, serviceVars>>

\* A suppressed request answered as if its channel had delivered it.
cancelledResponseAsSent(notificationId) ==
  Response(notificationId, "sent", now, NULL, Undefined, Undefined)

\* Lines 175-178: the response of a request the preference filter suppresses.
cancelledResponse(notificationId) ==
  Response(notificationId, "cancelled", NULL, NULL, Undefined, Undefined)

\* Line 168: preferences && !this.shouldSendNotification(request, preferences),
\* on the result of getNotificationPreferences: "absent" without a stored row,
\* else what the filter answers.
FilterDecision(request, found) ==
  IF found = {} THEN "absent"
  ELSE IF \E prefs \in found : ~shouldSendNotification(request, prefs) THEN "false"
  ELSE "true"

\* Lines 161-182: await getNotificationPreferences, then the preference filter.
Preferences(c) ==
  LET call == calls[c]
      found == getNotificationPreferences(call.request.recipientId,
                                          call.request.tenantId)
      decision == FilterDecision(call.request, found)
  IN  /\ call.pc = "preferences"
      /\ \/ /\ NoFault
            /\ calls' = [ calls EXCEPT
                            ![c].filter = decision,
                            ![c].pc = IF decision = "false" THEN "cancel" ELSE "send",
                            ![c].response =
                              IF decision = "false"
                              THEN cancelledResponse(call.notificationId)
                              ELSE @ ]
         \/ /\ Fault
            /\ calls' = [ calls EXCEPT ![c] = Throw(@, "preferences", ErrDatabase) ]
      /\ UNCHANGED <<now, notifications, preferences, googleEmailService, sweeps, bulk, serviceVars>>

\* The routing key `notification.${request.channel}.${response.status}`.
RoutingKey(channel, status) == <<"notification", channel, status>>

\* The call after publishNotificationEvent published under `key`.
Published(call, key) == [ call EXCEPT !.event = key ]

\* A suppressed dispatch that publishes a 'cancelled' event before it returns.
CancelledAndPublished(call) ==
  Return(Published(call, RoutingKey(call.request.channel, call.response.status)),
         call.response)

\* Line 181: `return response` of a suppressed dispatch; nothing is published.
Cancelled(call) == Return(call, call.response)

\* Lines 180-181: await updateNotificationStatus(notificationId, response); return.
Cancel(c) ==
  LET call == calls[c]
  IN  /\ call.pc = "cancel"
      /\ \/ /\ NoFault
            /\ notifications' =
                 updateNotificationStatus(call.notificationId, call.response)
            /\ calls' = [ calls EXCEPT ![c] = Cancelled(@) ]
         \/ /\ Fault
            /\ calls' = [ calls EXCEPT
                            ![c] = Throw([ @ EXCEPT !.updateRaised = TRUE ],
                                         "update", ErrDatabase) ]
            /\ UNCHANGED notifications
      /\ UNCHANGED <<now, preferences, googleEmailService, sweeps, bulk, serviceVars>>

\* GoogleWorkspaceEmailService.sendEmail: never throws; it returns 'sent' when the
\* mail went out and 'failed', with the error, when anything in it raised.
sendEmail(request, delivered) ==
  IF delivered
  THEN Response(request.id, "sent", now, NULL, Undefined, "messageId")
  ELSE Response(request.id, "failed", NULL, now, ErrTransport, Undefined)

\* sendInAppNotification and sendSMSNotification: the stub marks the request sent.
sendStub(request) == Response(request.id, "sent", now, NULL, Undefined, Undefined)

\* Channels with a case in the switch of sendNotification.
SupportedChannels == {"email", "in_app", "sms"}

\* The exception the channel case throws before any transport is reached, or
\* NoError: the default case, sendEmailNotification's guard and compileTemplate.
SendError(request) ==
  IF request.channel \notin SupportedChannels THEN ErrUnsupportedChannel
  ELSE IF request.channel # "email" THEN NoError
  ELSE IF googleEmailService = "null" THEN ErrEmailNotConfigured
  ELSE compileTemplate(request.templateId, request.data)

\* Where the exception of SendError is raised.
SendErrorAt(request) ==
  IF request.channel = "email" /\ googleEmailService # "null"
  THEN "render" ELSE "channel"

\* A call that goes on to publish the event as soon as its transport returned.
TransportedUnpersisted(call, response) ==
  [ call EXCEPT !.pc = "publish", !.response = response,
                !.transport = @ + 1, !.transportAt = now ]

\* The call after its channel transport returned `response`.
Transported(call, response) ==
  [ call EXCEPT !.pc = "update", !.response = response,
                !.transport = @ + 1, !.transportAt = now ]

\* Lines 184-199: the switch on request.channel.
Send(c) ==
  LET call == calls[c]
      request == call.request
  IN  /\ call.pc = "send"
      /\ IF SendError(request) # NoError
         THEN /\ NoFault
              /\ calls' = [ calls EXCEPT
                              ![c] = Throw(@, SendErrorAt(request), SendError(request)) ]
         ELSE IF request.channel = "email"
         THEN \/ /\ NoFault
                 /\ calls' = [ calls EXCEPT
                                 ![c] = Transported(@, sendEmail(request, TRUE)) ]
              \/ /\ Fault
                 /\ calls' = [ calls EXCEPT
                                 ![c] = Transported(@, sendEmail(request, FALSE)) ]
         ELSE /\ NoFault
              /\ calls' = [ calls EXCEPT ![c] = Transported(@, sendStub(request)) ]
      /\ UNCHANGED <<now, notifications, preferences, googleEmailService, sweeps, bulk, serviceVars>>

\* Line 202: await updateNotificationStatus(notificationId, response).
Update(c) ==
  LET call == calls[c]
  IN  /\ call.pc = "update"
      /\ \/ /\ NoFault
            /\ notifications' =
                 updateNotificationStatus(call.notificationId, call.response)
            /\ calls' = [ calls EXCEPT ![c].pc = "publish" ]
         \/ /\ Fault
            /\ calls' = [ calls EXCEPT
                            ![c] = Throw([ @ EXCEPT !.updateRaised = TRUE ],
                                         "update", ErrDatabase) ]
            /\ UNCHANGED notifications
      /\ UNCHANGED <<now, preferences, googleEmailService, sweeps, bulk, serviceVars>>

\* Lines 204-210: await publishNotificationEvent(routingKey, request); return
\* response.  publishNotificationEvent throws without a channel and rethrows
\* what the channel raises, as it does on a closed channel.
Publish(c) ==
  LET call == calls[c]
  IN  /\ call.pc = "publish"
      /\ \/ /\ mq.channel = "open"
            /\ NoFault
            /\ calls' = [ calls EXCEPT
                            ![c] = Return(Published(@, RoutingKey(call.request.channel,
                                                                  call.response.status)),
                                          call.response) ]
         \/ /\ Fault \/ (mq.channel # "open" /\ NoFault)
            /\ calls' = [ calls EXCEPT ![c] = Throw(@, "publish", ErrPublish) ]
      /\ UNCHANGED <<now, notifications, preferences, googleEmailService, sweeps, bulk, serviceVars>>

\* A 'failed' response that carries no error message.
errorResponseWithoutError(call) ==
  Response(call.request.id, "failed", NULL, now, Undefined, Undefined)

\* Lines 218-223: the response the catch block builds.
errorResponse(call) ==
  Response(call.request.id, "failed", NULL, now, call.error, Undefined)

\* Lines 211-230: the catch block.  Its own updateNotificationStatus is awaited
\* outside any try: what it raises leaves sendNotification.
Catch(c) ==
  LET call == calls[c]
  IN  /\ call.pc = "catch"
      /\ IF call.request.id # NoId
         THEN \/ /\ NoFault
                 /\ notifications' =
                      updateNotificationStatus(call.request.id, errorResponse(call))
                 /\ calls' = [ calls EXCEPT ![c] = Return(@, errorResponse(call)) ]
              \/ /\ Fault
                 /\ calls' = [ calls EXCEPT
                                 ![c] = Reject([ @ EXCEPT !.updateRaised = TRUE ],
                                               ErrDatabase) ]
                 /\ UNCHANGED notifications
         ELSE /\ NoFault
              /\ calls' = [ calls EXCEPT ![c] = Return(@, errorResponse(call)) ]
              /\ UNCHANGED notifications
      /\ UNCHANGED <<now, preferences, googleEmailService, sweeps, bulk, serviceVars>>

----------------------------------------------------------------------------
(* GoogleWorkspaceEmailService.sendEmail, await by await *)

\* const batchSize = 10 of sendBulkEmails
batchSize == 10

\* No sendBulkEmails under way.  Of an activation, notifications is the array it
\* was given, templates the keys of the map of compiled templates, pc the await
\* it stands at, i the index of its loop, batch the sendEmail started for each
\* item of the current batch (0: none, the template was missing), results the
\* array it builds and returned the array it returned.
NoBulkMail ==
  [ pc |-> "idle", notifications |-> <<>>, templates |-> {}, i |-> 0,
    batch |-> <<>>, results |-> <<>>, returned |-> <<>> ]

\* The email service as its constructor leaves it: no access token, no
\* transporter, nothing being sent.
NoMailer ==
  [ accessToken |-> "absent", transporter |-> "null", sends |-> <<>>,
    bulk |-> NoBulkMail ]

\* compiledTemplate.htmlBody as the template service rendered it.
RenderedHtml(request) == [ body |-> request.templateId, pixels |-> <<>> ]

\* A body that gets the pixel whatever the priority.
MailHtmlAlwaysTracked(request) ==
  [ RenderedHtml(request) EXCEPT !.pixels = Append(@, request.id) ]

\* Lines 130-133: mailOptions.html, the rendered body with the tracking pixel of
\* the notification appended for the priorities that are tracked.
MailHtml(request) ==
  IF request.priority = "high" \/ request.priority = "critical"
  THEN [ RenderedHtml(request) EXCEPT !.pixels = Append(@, request.id) ]
  ELSE RenderedHtml(request)

\* A check that refreshes only when there is no token at all.
NeedsRefreshWhenAbsent == mailer.accessToken = "absent"

\* Lines 83-84: whether ensureValidToken refreshes.
NeedsRefresh == mailer.accessToken # "valid"

\* An activation of sendEmail at its entry.  pc is the await it stands at,
\* raisedAt the step that raised, handed the html given to transporter.sendMail.
NewMail(request) ==
  [ request |-> request, pc |-> "token", raisedAt |-> "none",
    handed |-> [ body |-> Undefined, pixels |-> <<>> ],
    outcome |-> "pending", returned |-> NoResponse ]

\* A sendEmail that lets the error it caught leave.
MailRethrown(mail, at) ==
  [ mail EXCEPT !.pc = "done", !.raisedAt = at, !.outcome = "rejected" ]

\* Lines 162-178: the catch block of sendEmail returns a 'failed' response.
MailCaught(mail, at) ==
  [ mail EXCEPT !.pc = "done", !.raisedAt = at, !.outcome = "fulfilled",
                !.returned = sendEmail(mail.request, FALSE) ]

\* Line 272: sendEmailNotification calls sendEmail with the compiled template.
MailStart(request) ==
  /\ Len(mailer.sends) < MaxMails
  /\ mailer' = [ mailer EXCEPT !.sends = Append(@, NewMail(request)) ]
  /\ UNCHANGED <<engineVars, timerVars, busVars, readVars>>

\* Line 98: await ensureValidToken().  A token that is absent or about to expire
\* is refreshed and the transporter built again; getAccessToken, the creation
\* of the transporter and its verify() can each raise.
MailToken(m) ==
  /\ mailer.sends[m].pc = "token"
  /\ IF NeedsRefresh
     THEN \/ mailer' = [ mailer EXCEPT !.accessToken = "valid",
                                       !.transporter = "ready",
                                       !.sends[m].pc = "lookup" ]
          \/ mailer' = [ mailer EXCEPT !.sends[m] = MailCaught(@, "refresh") ]
          \/ mailer' = [ mailer EXCEPT !.accessToken = "valid",
                                       !.sends[m] = MailCaught(@, "create") ]
          \/ mailer' = [ mailer EXCEPT !.accessToken = "valid",
                                       !.transporter = "ready",
                                       !.sends[m] = MailCaught(@, "verify") ]
     ELSE mailer' = [ mailer EXCEPT !.sends[m].pc = "lookup" ]
  /\ UNCHANGED <<engineVars, timerVars, busVars, readVars>>

\* Lines 100-105: the transporter check and await getRecipientInfo().
MailLookup(m) ==
  /\ mailer.sends[m].pc = "lookup"
  /\ IF mailer.transporter = "null"
     THEN mailer' = [ mailer EXCEPT !.sends[m] = MailCaught(@, "transporter") ]
     ELSE \/ mailer' = [ mailer EXCEPT !.sends[m].pc = "send" ]
          \/ mailer' = [ mailer EXCEPT !.sends[m] = MailCaught(@, "recipient") ]
  /\ UNCHANGED <<engineVars, timerVars, busVars, readVars>>

\* Lines 107-160: mailOptions is built and await transporter.sendMail(mailOptions)
\* answers or raises.
MailSend(m) ==
  LET mail == mailer.sends[m]
      handed == [ mail EXCEPT !.handed = MailHtml(mail.request) ]
  IN  /\ mail.pc = "send"
      /\ \/ mailer' = [ mailer EXCEPT
                          !.sends[m] = [ handed EXCEPT
                                           !.pc = "done", !.outcome = "fulfilled",
                                           !.returned = sendEmail(mail.request, TRUE) ] ]
         \/ mailer' = [ mailer EXCEPT !.sends[m] = MailCaught(handed, "send") ]
      /\ UNCHANGED <<engineVars, timerVars, busVars, readVars>>

\* The access token comes within a minute of its expiry.
TokenExpires ==
  /\ mailer.accessToken = "valid"
  /\ mailer' = [ mailer EXCEPT !.accessToken = "expiring" ]
  /\ UNCHANGED <<engineVars, timerVars, busVars, readVars>>

\* GoogleWorkspaceEmailService.close(): the transporter is closed and dropped.
MailerClose ==
  /\ mailer.transporter = "ready"
  /\ mailer' = [ mailer EXCEPT !.transporter = "null" ]
  /\ UNCHANGED <<engineVars, timerVars, busVars, readVars>>

----------------------------------------------------------------------------
(* GoogleWorkspaceEmailService.sendBulkEmails *)

\* Lines 202-213: the response of an item whose template is not in the map.
templateMissingResponse(request) ==
  Response(request.id, "failed", NULL, now, ErrTemplateNotFound, Undefined)

\* Lines 199-216: batch = notifications.slice(i, i + batchSize) and
\* batch.map(...): the items of the batch that have a template each start a
\* sendEmail.  The result is the sends table and, for each item of the batch,
\* the index of its sendEmail or 0.
BulkMailBatch(b, i) ==
  LET last == IF Len(b.notifications) < i + batchSize
              THEN Len(b.notifications) ELSE i + batchSize
      items == SubSeq(b.notifications, i + 1, last)
      started == { k \in DOMAIN items : items[k].templateId \in b.templates }
      position(k) == Cardinality({ j \in started : j <= k })
      mails == [ n \in 1..Cardinality(started) |->
                   NewMail(items[CHOOSE k \in started : position(k) = n]) ]
  IN  [ sends |-> mailer.sends \o mails,
        batch |-> [ k \in DOMAIN items |->
                      IF k \in started THEN Len(mailer.sends) + position(k)
                      ELSE 0 ] ]

\* The activation at the head of the loop of line 198: the next batch starts,
\* or the loop is over and `return results` (line 264) is reached.
BulkMailLoop(m, b, i) ==
  IF i < Len(b.notifications)
  THEN [ m EXCEPT !.sends = BulkMailBatch(b, i).sends,
                  !.bulk = [ b EXCEPT !.pc = "batch", !.i = i,
                                      !.batch = BulkMailBatch(b, i).batch ] ]
  ELSE [ m EXCEPT !.bulk = [ b EXCEPT !.pc = "done", !.i = i, !.batch = <<>>,
                                      !.returned = b.results ] ]

\* Lines 256-264: the outer catch block logs and `return results` returns what
\* was collected before the error.
BulkMailCaught(m, b) ==
  [ m EXCEPT !.bulk = [ b EXCEPT !.pc = "done", !.returned = b.results ] ]

\* sendBulkEmails is called: lines 181-195, up to await ensureValidToken().
BulkMailStart(requests, templateIds) ==
  /\ mailer.bulk.pc = "idle"
  /\ mailer' = [ mailer EXCEPT
                   !.bulk = [ NoBulkMail EXCEPT !.pc = "token",
                                                !.notifications = requests,
                                                !.templates = templateIds ] ]
  /\ UNCHANGED <<engineVars, timerVars, busVars, readVars>>

\* Line 196: await ensureValidToken() of sendBulkEmails, outside the loop.
\* What the refresh or the transporter raises reaches the outer catch block.
BulkMailToken ==
  LET b == mailer.bulk
  IN  /\ b.pc = "token"
      /\ IF NeedsRefresh
         THEN \/ mailer' = BulkMailLoop([ mailer EXCEPT !.accessToken = "valid",
                                                         !.transporter = "ready" ],
                                        b, 0)
              \/ mailer' = BulkMailCaught(mailer, b)
              \/ mailer' = BulkMailCaught([ mailer EXCEPT !.accessToken = "valid" ], b)
              \/ mailer' = BulkMailCaught([ mailer EXCEPT !.accessToken = "valid",
                                                          !.transporter = "ready" ],
                                          b)
         ELSE mailer' = BulkMailLoop(mailer, b, 0)
      /\ UNCHANGED <<engineVars, timerVars, busVars, readVars>>

\* Lines 218-242: await Promise.allSettled(batchPromises) resumes, one result
\* per item is pushed in the order of the batch, and after the delay of line
\* 240 the loop goes on.
BulkMailResume ==
  LET b == mailer.bulk
      batchResults ==
        [ k \in DOMAIN b.batch |->
            IF b.batch[k] = 0
            THEN templateMissingResponse(b.notifications[b.i + k])
            ELSE mailer.sends[b.batch[k]].returned ]
      pushed == [ b EXCEPT !.results = @ \o batchResults ]
  IN  /\ b.pc = "batch"
      /\ \A k \in DOMAIN b.batch :
           b.batch[k] # 0 => mailer.sends[b.batch[k]].pc = "done"
      /\ mailer' = BulkMailLoop(mailer, pushed, b.i + batchSize)
      /\ UNCHANGED <<engineVars, timerVars, busVars, readVars>>

----------------------------------------------------------------------------
(* NotificationController.sendNotification: the single-send endpoint *)

\* A request as the endpoint builds it from a valid body: no id yet.
Request(recipientId, channel, priority, templateId, data, scheduledAt, expiresAt) ==
  [ id |-> NoId,
    tenantId |-> "T1",
    recipientId |-> recipientId,
    type |-> "work_item_assigned",
    channel |-> channel,
    priority |-> priority,
    templateId |-> templateId,
    data |-> data,
    scheduledAt |-> scheduledAt,
    expiresAt |-> expiresAt,
    metadata |-> Undefined ]

\* Line 42: the endpoint calls notificationService.sendNotification(request).
ApiSend(request) ==
  /\ Len(calls) < MaxCalls
  /\ Cardinality({ c \in DOMAIN calls : calls[c].caller = "api" }) < MaxApi
  /\ calls' = Append(calls, NewCall("api", request))
  /\ UNCHANGED <<now, notifications, preferences, googleEmailService, sweeps, bulk, faults, serviceVars>>

----------------------------------------------------------------------------
(* NotificationService.processPendingNotifications: the background sweep *)

SweepLimit == 50     \* getPendingNotifications(50)
concurrency == 5     \* const concurrency = 5

\* Whether every call of a set has settled (Promise.allSettled resumes).
AllSettled(cs) == \A c \in cs : calls[c].outcome # "pending"

\* batch = pendingNotifications.slice(i, i + concurrency)
Slice(page, i) ==
  SubSeq(page, i + 1, IF Len(page) < i + concurrency THEN Len(page) ELSE i + concurrency)

\* batch.map(notification => this.sendNotification(notification)): the calls
\* table after the batch is started, each call at its first await.
StartCalls(caller, batch) ==
  calls \o [ k \in 1..Len(batch) |-> NewCall(caller, batch[k]) ]

\* The indices of the calls StartCalls adds.
StartedCalls(batch) == (Len(calls) + 1)..(Len(calls) + Len(batch))

\* Lines 306-317 in a timer tick (line 142): the pull of line 306 and the start
\* of the first batch.  An empty page returns at line 309.
StartSweep ==
  /\ processingInterval = "set"
  /\ PendingDue # {}
  /\ \E page \in getPendingNotifications(SweepLimit) :
       /\ calls' = StartCalls("sweep", Slice(page, 0))
       /\ sweeps' = Append(sweeps, [ page |-> page, i |-> 0,
                                     batch |-> StartedCalls(Slice(page, 0)),
                                     done |-> FALSE ])
  /\ UNCHANGED <<now, notifications, preferences, googleEmailService, bulk, faults, serviceVars>>

\* A timer tick, for as long as the calls table of the model has room for the
\* calls of its page.
SweepTick == Len(calls) + PageSize(SweepLimit) <= MaxCalls /\ StartSweep

\* The first tick of the timer after initialize().
FirstSweepTick == sweeps = <<>> /\ StartSweep

\* Lines 318-322: await Promise.allSettled(promises) resumes, i += concurrency,
\* and the next batch starts or the loop ends.
SweepStep(s) ==
  LET sweep == sweeps[s]
      i == sweep.i + concurrency
  IN  /\ ~sweep.done
      /\ AllSettled(sweep.batch)
      /\ IF i < Len(sweep.page)
         THEN /\ calls' = StartCalls("sweep", Slice(sweep.page, i))
              /\ sweeps' = [ sweeps EXCEPT
                               ![s].i = i,
                               ![s].batch = StartedCalls(Slice(sweep.page, i)) ]
         ELSE /\ sweeps' = [ sweeps EXCEPT ![s].i = i, ![s].batch = {},
                                           ![s].done = TRUE ]
              /\ UNCHANGED calls
      /\ UNCHANGED <<now, notifications, preferences, googleEmailService, bulk, faults, serviceVars>>

\* The record of the timer callbacks that started no dispatch: fired is the
\* parity of their number, last the way the latest one ended, and after whether
\* one of them fired when the callback before it had ended in the catch block
\* and a dispatch started by a tick had thrown.
NoTick == [ fired |-> 0, last |-> "none", after |-> FALSE ]

\* The record after one more callback ended as `outcome`.
Ticked(outcome) ==
  [ fired |-> 1 - ticks.fired, last |-> outcome,
    after |-> \/ ticks.after
              \/ /\ ticks.last = "failed"
                 /\ \E c \in DOMAIN calls : calls[c].outcome = "rejected" ]

\* A callback whose error ends the timer.
TickEscaped(interval) == "null"

\* Lines 143-149 and 323-327: what is left of the timer after a callback whose
\* pull raised.  Both catch blocks log and return, so the interval created at
\* line 142 stays as it is.
TickCaught(interval) == interval

\* A timer tick whose getPendingNotifications(50) rejects (line 306): the error
\* is caught at line 323 and logged, and the callback ends.
SweepTickFails ==
  /\ processingInterval = "set"
  /\ processingInterval' = TickCaught(processingInterval)
  /\ ticks' = Ticked("failed")
  /\ UNCHANGED <<engineVars, shutdown, busVars, emailVars, readVars>>

\* A timer tick whose pull returns no row: the callback returns at line 309.
SweepTickEmpty ==
  /\ processingInterval = "set"
  /\ PendingDue = {}
  /\ ticks' = Ticked("empty")
  /\ UNCHANGED <<engineVars, processingInterval, shutdown, busVars, emailVars, readVars>>

\* A timer tick that pulls a page, for as long as the model follows such ticks.
SweepTickPulls == Len(sweeps) < MaxSweeps /\ SweepTick

\* A callback of the interval timer of line 142.
TimerCallback == SweepTickPulls \/ SweepTickFails \/ SweepTickEmpty

----------------------------------------------------------------------------
(* NotificationController.sendBulkNotifications *)

NoBulk == [ state |-> "idle", notifications |-> <<>>, calls |-> <<>>,
            response |-> [ status |-> "none", success |-> FALSE, processed |-> 0,
                           successful |-> 0, failed |-> 0, results |-> <<>> ] ]

\* Results listed from the last input to the first.
BulkResultsReversed(callIds) ==
  [ k \in DOMAIN callIds |->
      LET c == callIds[Len(callIds) + 1 - k]
      IN  IF calls[c].outcome = "fulfilled"
          THEN [ index |-> k - 1, success |-> TRUE,
                 notification |-> calls[c].returned, error |-> Undefined ]
          ELSE [ index |-> k - 1, success |-> FALSE,
                 notification |-> NoResponse, error |-> calls[c].error ] ]

\* Lines 98-112: responses.map((response, index) => ...): one result per settled
\* promise, in the order of the input; index is 0-based.
BulkResults(callIds) ==
  [ k \in DOMAIN callIds |->
      IF calls[callIds[k]].outcome = "fulfilled"
      THEN [ index |-> k - 1, success |-> TRUE,
             notification |-> calls[callIds[k]].returned, error |-> Undefined ]
      ELSE [ index |-> k - 1, success |-> FALSE,
             notification |-> NoResponse, error |-> calls[callIds[k]].error ] ]

\* results.filter(predicate).length
CountResults(results, success) ==
  Cardinality({ k \in DOMAIN results : results[k].success = success })

\* Lines 69-96: a valid array is accepted and every item is handed to
\* sendNotification at once.
BulkStart(requests) ==
  /\ bulk.state = "idle"
  /\ requests # <<>>
  /\ calls' = StartCalls("bulk", requests)
  /\ bulk' = [ bulk EXCEPT
                 !.state = "running",
                 !.notifications = requests,
                 !.calls = [ k \in DOMAIN requests |-> Len(calls) + k ] ]
  /\ UNCHANGED <<now, notifications, preferences, googleEmailService, sweeps, faults, serviceVars>>

\* Lines 92-123: Promise.allSettled resumes and the 200 response is written.
BulkRespond ==
  LET results == BulkResults(bulk.calls)
  IN  /\ bulk.state = "running"
      /\ AllSettled({ bulk.calls[k] : k \in DOMAIN bulk.calls })
      /\ bulk' = [ bulk EXCEPT
                     !.state = "responded",
                     !.response = [ status |-> "200",
                                    success |-> TRUE,
                                    processed |-> Len(bulk.notifications),
                                    successful |-> CountResults(results, TRUE),
                                    failed |-> CountResults(results, FALSE),
                                    results |-> results ] ]
      /\ UNCHANGED <<now, notifications, preferences, googleEmailService, calls, sweeps, faults, serviceVars>>

----------------------------------------------------------------------------
(* NotificationController.updateNotificationPreferences *)

\* saveNotificationPreferences: INSERT ... ON CONFLICT (user_id) DO UPDATE SET
\* every column but user_id and tenant_id.
saveNotificationPreferences(prefs) ==
  IF \E row \in preferences : row.userId = prefs.userId
  THEN { IF row.userId = prefs.userId
         THEN [ prefs EXCEPT !.tenantId = row.tenantId ]
         ELSE row : row \in preferences }
  ELSE preferences \cup {prefs}

UpdatePreferences(prefs) ==
  /\ preferences' = saveNotificationPreferences(prefs)
  /\ preferences' # preferences
  /\ UNCHANGED <<now, notifications, googleEmailService, calls, sweeps, bulk, faults, serviceVars>>

----------------------------------------------------------------------------
(* NotificationController.getNotificationPreferences *)

\* Values the user_id and tenant_id columns, of type UUID, accept: a query with
\* any other text as parameter raises.
IsUuid(id) == id \in {"U1", "U2", "T1", "T2"}

\* Default preferences with SMS switched on.
defaultPreferencesSmsOn(userId, tenantId) ==
  [ userId |-> userId, tenantId |-> tenantId,
    emailNotifications |-> TRUE, inAppNotifications |-> TRUE,
    smsNotifications |-> TRUE, pushNotifications |-> TRUE,
    digestFrequency |-> "daily",
    workingHours |-> [ start |-> "09:00", end |-> "17:00", timezone |-> "UTC",
                       daysOfWeek |-> <<1, 2, 3, 4, 5>> ],
    notificationTypes |-> <<>> ]

\* Lines 158-173: the default preferences of the controller.
defaultPreferences(userId, tenantId) ==
  [ userId |-> userId, tenantId |-> tenantId,
    emailNotifications |-> TRUE, inAppNotifications |-> TRUE,
    smsNotifications |-> FALSE, pushNotifications |-> TRUE,
    digestFrequency |-> "daily",
    workingHours |-> [ start |-> "09:00", end |-> "17:00", timezone |-> "UTC",
                       daysOfWeek |-> <<1, 2, 3, 4, 5>> ],
    notificationTypes |-> <<>> ]

\* The answer of the endpoint: the HTTP status and, under 200, the preferences
\* of the body (one object) and its isDefault.
ReadResponse(userId, tenantId, status, body, isDefault) ==
  [ userId |-> userId, tenantId |-> tenantId, status |-> status,
    preferences |-> body, isDefault |-> isDefault ]

\* Lines 142-197.  db says whether the database answers the SELECT.
getPreferencesResponse(userId, tenantId, db) ==
  LET found == getNotificationPreferences(userId, tenantId)
  IN  IF userId = "" \/ tenantId = ""
      THEN ReadResponse(userId, tenantId, 400, {}, FALSE)
      ELSE IF db = "raises" \/ ~IsUuid(userId) \/ ~IsUuid(tenantId)
      THEN ReadResponse(userId, tenantId, 500, {}, FALSE)
      ELSE IF found = {}
      THEN ReadResponse(userId, tenantId, 200,
                        {defaultPreferences(userId, tenantId)}, TRUE)
      ELSE ReadResponse(userId, tenantId, 200, found, FALSE)

\* GET of the preferences of (userId, tenantId).
ReadPreferences(userId, tenantId, db) ==
  /\ Len(reads) < MaxReads
  /\ reads' = Append(reads, getPreferencesResponse(userId, tenantId, db))
  /\ UNCHANGED <<engineVars, timerVars, busVars, emailVars>>

----------------------------------------------------------------------------
(* The clock *)

Advance ==
  /\ now < MaxTime
  /\ now' = now + 1
  /\ UNCHANGED <<notifications, preferences, googleEmailService, calls, sweeps, bulk, faults, serviceVars>>

----------------------------------------------------------------------------
(* MessageQueueService: the bus connection and its reconnect loop *)

\* The delay of reconnect() before it calls connect(), in milliseconds.
ReconnectDelay == 5000
\* The delay before reconnect() is called again after a failed attempt.
RetryDelay == 10000

\* The service as its constructor leaves it.  connection and channel are the
\* fields of the service: null, an open handle, or a handle the broker side has
\* closed.  listening: the 'close' listener of connect() is on the connection;
\* consumers: the four consumers are registered on the channel.  reconnect is the
\* position of the reconnect loop, waited the time its timers have run since the
\* loop started or last attempted, delay the time waited before the last
\* attempt, attempts the attempts of the loop (counted up to MaxAttempts), losses
\* the connections lost.  broker says whether the broker accepts connections;
\* escaped, whether an error left reconnect(); closed, whether close() was called.
NoBus ==
  [ connection |-> "null", channel |-> "null", listening |-> FALSE,
    consumers |-> FALSE, reconnect |-> "idle", waited |-> 0, delay |-> 0,
    attempts |-> 0, losses |-> 0, broker |-> "up", escaped |-> FALSE,
    closed |-> FALSE ]

\* The service after connect() and startEventSubscriptions() in initialize().
ConnectedBus ==
  [ NoBus EXCEPT !.connection = "open", !.channel = "open",
                 !.listening = TRUE, !.consumers = TRUE ]

\* Lines 27-30: the 'close' listener calls reconnect(), which starts its wait.
closeListener(bus) ==
  [ bus EXCEPT !.reconnect = "wait5", !.waited = 0, !.attempts = 0 ]

\* The handles after the connection went away under them.
Dropped(bus) ==
  [ bus EXCEPT !.connection = IF @ = "open" THEN "closed" ELSE @,
               !.channel = IF @ = "open" THEN "closed" ELSE @,
               !.listening = FALSE, !.consumers = FALSE ]

\* Messages whose handler is running when their channel goes away.
Orphaned(ds) ==
  [ d \in DOMAIN ds |->
      IF ds[d].pc = "handler" THEN [ ds[d] EXCEPT !.orphaned = TRUE ] ELSE ds[d] ]

\* The broker, or the network, closes the connection: the 'close' event fires.
ConnectionLost(brokerAfter) ==
  /\ mq.connection = "open"
  /\ mq.listening
  /\ mq.losses < MaxOutages
  /\ mq' = closeListener([ Dropped(mq) EXCEPT !.losses = @ + 1,
                                              !.broker = brokerAfter ])
  /\ deliveries' = Orphaned(deliveries)
  /\ UNCHANGED <<engineVars, timerVars, emailVars, readVars>>

\* The broker stops or starts accepting connections while the service has no
\* established connection.
BrokerChanges ==
  /\ ~mq.listening
  /\ mq' = [ mq EXCEPT !.broker = IF @ = "up" THEN "down" ELSE "up" ]
  /\ UNCHANGED <<engineVars, timerVars, emailVars, readVars, deliveries>>

\* A reconnect loop whose attempt failed stops, and the error leaves reconnect().
ReconnectAbandoned(bus) ==
  [ bus EXCEPT !.reconnect = "idle", !.escaped = TRUE ]

\* Lines 76-81: the catch block of reconnect() logs and arms the retry timer.
ReconnectFailed(bus) ==
  [ bus EXCEPT !.reconnect = "wait10" ]

\* Line 74: the 5 second wait of reconnect() ends.
ReconnectWait ==
  /\ mq.reconnect = "wait5"
  /\ mq' = [ mq EXCEPT !.reconnect = "connect", !.waited = @ + ReconnectDelay ]
  /\ UNCHANGED <<engineVars, timerVars, emailVars, readVars, deliveries>>

\* Line 16: amqp.connect.  On failure connect() rethrows (line 37) into the
\* catch block of reconnect().
ConnectOpen ==
  LET attempt == [ mq EXCEPT !.delay = mq.waited, !.waited = 0,
                             !.attempts = IF @ < MaxAttempts THEN @ + 1 ELSE @ ]
  IN  /\ mq.reconnect = "connect"
      /\ mq' = IF mq.broker = "up"
               THEN [ attempt EXCEPT !.connection = "open", !.listening = FALSE,
                                     !.reconnect = "createChannel" ]
               ELSE ReconnectFailed(attempt)
      /\ UNCHANGED <<engineVars, timerVars, emailVars, readVars, deliveries>>

\* Line 17: this.connection.createChannel().
ConnectChannel ==
  /\ mq.reconnect = "createChannel"
  /\ mq' = IF mq.broker = "up" /\ mq.connection = "open"
           THEN [ mq EXCEPT !.channel = "open", !.consumers = FALSE,
                            !.reconnect = "setup" ]
           ELSE ReconnectFailed(Dropped(mq))
  /\ UNCHANGED <<engineVars, timerVars, emailVars, readVars, deliveries>>

\* Lines 20-32: setupExchangesAndQueues, then the 'error' and 'close' listeners.
ConnectSetup ==
  /\ mq.reconnect = "setup"
  /\ mq' = IF mq.broker = "up" /\ mq.connection = "open" /\ mq.channel = "open"
           THEN [ mq EXCEPT !.listening = TRUE, !.reconnect = "idle" ]
           ELSE ReconnectFailed(Dropped(mq))
  /\ UNCHANGED <<engineVars, timerVars, emailVars, readVars, deliveries>>

\* Line 80: the 10 second retry timer fires and calls reconnect() again.
ReconnectRetry ==
  /\ mq.reconnect = "wait10"
  /\ mq' = [ mq EXCEPT !.reconnect = "wait5", !.waited = @ + RetryDelay ]
  /\ UNCHANGED <<engineVars, timerVars, emailVars, readVars, deliveries>>

\* A step of the reconnect loop: a timer that fires or an await that resumes.
ReconnectStep ==
  \/ ReconnectWait
  \/ ConnectOpen
  \/ ConnectChannel
  \/ ConnectSetup
  \/ ReconnectRetry

\* Lines 325-341: close().  Closing a handle that is already closed rejects, and
\* the catch block ends close() there; closing the open connection fires its
\* 'close' event before the field is set to null.
CloseBus ==
  LET channelClosed ==
        [ mq EXCEPT !.closed = TRUE,
                    !.channel = IF @ = "open" THEN "null" ELSE @,
                    !.consumers = IF mq.channel = "open" THEN FALSE ELSE @ ]
      connectionClosed ==
        [ channelClosed EXCEPT !.connection = IF @ = "open" THEN "null" ELSE @,
                               !.listening = FALSE ]
  IN  /\ ~mq.closed
      /\ mq' = IF mq.channel = "closed" THEN channelClosed
               ELSE IF mq.connection = "open" /\ mq.listening
               THEN closeListener(connectionClosed)
               ELSE connectionClosed
      /\ deliveries' = IF mq.channel = "open" THEN Orphaned(deliveries)
                       ELSE deliveries

\* MessageQueueService.close() called on its own.
MqClose == CloseBus /\ UNCHANGED <<engineVars, timerVars, emailVars, readVars>>

----------------------------------------------------------------------------
(* NotificationService.close *)

\* A close() that leaves the timer as it is.
intervalKept(interval) == interval

\* Lines 466-469: clearInterval(this.processingInterval) and the field set to
\* null.
clearInterval(interval) == "null"

\* Lines 465-473: close() up to its first await: the interval is cleared and,
\* when the email channel is configured, the transporter closed and dropped.
ServiceClose ==
  /\ shutdown = "none"
  /\ shutdown' = "bus"
  /\ processingInterval' = IF processingInterval = "set"
                           THEN clearInterval(processingInterval)
                           ELSE processingInterval
  /\ mailer' = IF googleEmailService = "ready"
               THEN [ mailer EXCEPT !.transporter = "null" ]
               ELSE mailer
  /\ UNCHANGED <<engineVars, ticks, busVars, readVars>>

\* Line 475: await this.messageQueueService.close().
ServiceCloseBus ==
  /\ shutdown = "bus"
  /\ shutdown' = "database"
  /\ CloseBus
  /\ UNCHANGED <<engineVars, processingInterval, ticks, emailVars, readVars>>

\* Line 476: await this.databaseService.close() ends the pool.
ServiceCloseDatabase ==
  /\ shutdown = "database"
  /\ shutdown' = "done"
  /\ UNCHANGED <<engineVars, processingInterval, ticks, busVars, emailVars, readVars>>

----------------------------------------------------------------------------
(* MessageQueueService: the four consumers *)

\* Whether the consumer's catch block requeues (the third argument of nack).
Requeue(consumer) == consumer \in {"digest", "escalation"}

\* A message as the consumer callback receives it.  pc is the position of the
\* callback, call the sendNotification its handler awaits (0: none), handler the
\* way the try block went as far as the handler, decisions the acks and nacks
\* handed to the channel, orphaned whether the channel of the message went away
\* while the handler ran, escaped whether the callback ended by throwing.
NewDelivery(consumer, event) ==
  [ consumer |-> consumer, event |-> event, pc |-> "handler", call |-> 0,
    handler |-> "none", decisions |-> <<>>, orphaned |-> FALSE,
    escaped |-> FALSE, origin |-> 0 ]

\* this.channel!.nack(msg, false, requeue) in the catch block: on a channel that
\* is null or closed the call throws, out of the callback.
Nack(delivery) ==
  IF mq.channel = "open"
  THEN [ delivery EXCEPT
           !.pc = "done",
           !.decisions = Append(@, [ kind |-> "nack",
                                     requeue |-> Requeue(delivery.consumer),
                                     stale |-> delivery.orphaned ]) ]
  ELSE [ delivery EXCEPT !.pc = "done", !.escaped = TRUE ]

\* this.channel!.ack(msg), the last statement of the try block: on a channel that
\* is null or closed the call throws, and the catch block runs.
Ack(delivery) ==
  IF mq.channel = "open"
  THEN [ delivery EXCEPT
           !.pc = "done",
           !.decisions = Append(@, [ kind |-> "ack", requeue |-> FALSE,
                                     stale |-> delivery.orphaned ]) ]
  ELSE Nack(delivery)

\* The events whose handler dispatches a notification: handleWorkflowEvent,
\* handleWorkItemEvent and processEscalation.
HandlerSends(consumer, event) ==
  <<consumer, event>> \in { <<"workflow", "approval_requested">>,
                            <<"workflow", "escalation_triggered">>,
                            <<"workflow", "sla_breach">>,
                            <<"work_item", "work_item_assigned">>,
                            <<"escalation", "escalation">> }

\* Lines 374-429: the request the handler builds from the event.
EventRequest(consumer, event) ==
  LET type == IF consumer = "escalation" THEN "escalation_triggered" ELSE event
      templateId == IF event \in {"approval_requested", "work_item_assigned"}
                    THEN event ELSE "escalation_triggered"
      priority == IF event = "approval_requested" THEN "high"
                  ELSE IF event = "work_item_assigned" THEN "medium"
                  ELSE "critical"
  IN  [ Request("U1", "email", priority, templateId, templates[templateId],
                NULL, NULL)
          EXCEPT !.type = type ]

\* The consumer callback up to its first await that yields: JSON.parse, then
\* the handler.  A body that does not parse is nacked at once; a handler that
\* only logs is acked at once; the others await sendNotification.  origin is
\* the dispatch of this service that published the message, 0 when another
\* service did.
Receive(consumer, event, origin) ==
  LET delivery == [ NewDelivery(consumer, event) EXCEPT !.origin = origin ]
  IN  /\ mq.channel = "open"
      /\ mq.consumers
      /\ IF event = "malformed"
         THEN /\ deliveries' = Append(deliveries,
                                      Nack([ delivery EXCEPT !.handler = "failed" ]))
              /\ UNCHANGED calls
         ELSE IF HandlerSends(consumer, event)
         THEN /\ Len(calls) < MaxCalls
              /\ calls' = Append(calls, NewCall("event", EventRequest(consumer, event)))
              /\ deliveries' = Append(deliveries,
                                      [ delivery EXCEPT !.call = Len(calls) + 1 ])
         ELSE /\ deliveries' = Append(deliveries,
                                      Ack([ delivery EXCEPT !.handler = "ok" ]))
              /\ UNCHANGED calls
      /\ UNCHANGED <<now, notifications, preferences, googleEmailService, sweeps,
                     bulk, faults, timerVars, mq, emailVars, readVars>>

\* A message another service published, for as long as the model follows them.
Deliver(consumer, event) ==
  /\ Len(deliveries) < MaxDeliveries
  /\ Receive(consumer, event, 0)

\* Lines 54-55, 59 and 87: the queue notifications.email, which the workflow
\* consumer reads, is bound to the exchange htma.notifications with the key
\* notification.email.*, so it receives what publishNotificationEvent
\* publishes for the email channel.  No queue is bound with a key that matches
\* notification.in_app.* or the keys of the other channels.
Routed(call) == call.event # Undefined /\ call.request.channel = "email"

\* The broker delivers the outcome event of dispatch c to the workflow
\* consumer: the body is the request (lines 143-147), so event.type is the
\* type of the notification.
DeliverPublished(c) ==
  /\ Routed(calls[c])
  /\ \A d \in DOMAIN deliveries : deliveries[d].origin # c
  /\ HandlerSends("workflow", calls[c].request.type) => Len(calls) < MaxCalls
  /\ Receive("workflow", calls[c].request.type, c)

\* `await callback(event)` resumes: ack when sendNotification returned, the
\* catch block when it threw.
HandlerReturns(d) ==
  LET delivery == deliveries[d]
  IN  /\ delivery.pc = "handler"
      /\ calls[delivery.call].pc = "done"
      /\ deliveries' =
           [ deliveries EXCEPT
               ![d] = IF calls[delivery.call].outcome = "fulfilled"
                      THEN Ack([ delivery EXCEPT !.handler = "ok" ])
                      ELSE Nack([ delivery EXCEPT !.handler = "failed" ]) ]
      /\ UNCHANGED <<engineVars, timerVars, mq, emailVars, readVars>>

----------------------------------------------------------------------------
(* Inputs *)

CompleteData == templates["work_item_assigned"]
IncompleteData == CompleteData \ {"workItemUrl"}

\* Requests submitted to the single-send endpoint while the sweeper runs: they
\* differ in channel, earliest dispatch time and expiry.
ApiRequests ==
  { Request("U1", channel, "medium", "work_item_assigned", CompleteData,
            scheduledAt, expiresAt) :
      channel \in {"email", "in_app"},
      scheduledAt \in {NULL, MaxTime},
      expiresAt \in {NULL, 0} }

\* Requests submitted to the single-send endpoint: they differ in channel and,
\* on the one channel that renders, in template and data.
DispatchRequests ==
  { Request("U1", "email", "medium", templateId, data, NULL, NULL) :
      templateId \in {"work_item_assigned", "no_such_template"},
      data \in {CompleteData, IncompleteData} }
  \cup
  { Request("U1", channel, "medium", "work_item_assigned", CompleteData, NULL, NULL) :
      channel \in {"in_app", "push"} }

\* Items of a bulk request.
BulkRequests ==
  { Request("U1", "email", "medium", templateId, CompleteData, NULL, NULL) :
      templateId \in {"work_item_assigned", "no_such_template"} }
  \cup
  { Request("U1", "in_app", "medium", "work_item_assigned", CompleteData, NULL, NULL) }

\* Preference records a user stores.
PreferenceChoices ==
  { [ userId |-> "U1", tenantId |-> "T1",
      emailNotifications |-> email, inAppNotifications |-> TRUE,
      smsNotifications |-> FALSE, pushNotifications |-> TRUE,
      notificationTypes |-> types ] :
      email \in BOOLEAN,
      types \in { [ t \in {} |-> [ enabled |-> TRUE, channels |-> {} ] ],
                  [ t \in Types |-> [ enabled |-> FALSE,
                                      channels |-> {"email", "in_app"} ] ],
                  [ t \in Types |-> [ enabled |-> TRUE, channels |-> {"email"} ] ] } }

\* Requests on every channel the filter tells apart, and on one it does not.
FilterRequests ==
  { Request("U1", channel, "medium", "work_item_assigned", CompleteData, NULL, NULL) :
      channel \in {"email", "in_app", "sms", "push", "slack"} }

\* Stored preference records: every global switch on, or all but one; and for
\* the type of the requests no entry, a disabled entry, or an enabled entry
\* that allows two of the channels.
FilterPreferences ==
  { [ userId |-> "U1", tenantId |-> "T1",
      emailNotifications |-> off # "email", inAppNotifications |-> off # "in_app",
      smsNotifications |-> off # "sms", pushNotifications |-> off # "push",
      notificationTypes |-> types ] :
      off \in {"none", "email", "in_app", "sms", "push"},
      types \in { [ t \in {} |-> [ enabled |-> TRUE, channels |-> {} ] ],
                  [ t \in Types |-> [ enabled |-> FALSE,
                                      channels |-> {"email", "sms", "slack"} ] ],
                  [ t \in Types |-> [ enabled |-> TRUE,
                                      channels |-> {"email", "sms", "slack"} ] ] } }

\* Requests handed to sendEmail: persisted (they carry an id), of every priority.
MailRequests ==
  { [ Request("U1", "email", priority, "work_item_assigned", CompleteData, NULL, NULL)
        EXCEPT !.id = id ] :
      priority \in Priorities, id \in 1..2 }

\* Preference records users store, of two users and two tenants.
StoredChoices ==
  { [ userId |-> userId, tenantId |-> tenantId,
      emailNotifications |-> email, inAppNotifications |-> TRUE,
      smsNotifications |-> ~email, pushNotifications |-> TRUE,
      digestFrequency |-> IF email THEN "daily" ELSE "weekly",
      workingHours |-> [ start |-> "09:00:00", end |-> "17:00:00",
                         timezone |-> "UTC", daysOfWeek |-> <<1, 2, 3, 4, 5>> ],
      notificationTypes |-> <<>> ] :
      userId \in {"U1", "U2"}, tenantId \in {"T1", "T2"}, email \in BOOLEAN }

\* The userId path parameter and the tenantId query parameter of a read: the id
\* of a user or tenant, a text that is no UUID, or (tenantId) nothing.
ReadUsers == {"U1", "U2", "alice"}
ReadTenants == {"T1", "T2", ""}

\* The sequences over a set with 1 to n elements.
SeqsUpTo(S, n) == UNION { [1..k -> S] : k \in 1..n }

----------------------------------------------------------------------------
(* Specifications *)

\* The components around the dispatch engine after initialize(): the sweep timer
\* set, the bus connected with nothing delivered, no mail and no read under way.
Quiet ==
  /\ processingInterval = "set"
  /\ ticks = NoTick
  /\ shutdown = "none"
  /\ mq = ConnectedBus
  /\ deliveries = <<>>
  /\ mailer = NoMailer
  /\ reads = <<>>

\* The service after initialize(): empty tables, the email channel configured.
Init ==
  /\ now = 0
  /\ notifications = <<>>
  /\ preferences = {}
  /\ googleEmailService = "ready"
  /\ calls = <<>>
  /\ sweeps = <<>>
  /\ bulk = NoBulk
  /\ faults = 0
  /\ Quiet

\* The dispatch engine under the single-send endpoint and the background sweeper.
Next ==
  \/ \E request \in ApiRequests : ApiSend(request)
  \/ \E c \in DOMAIN calls : Save(c)
  \/ \E c \in DOMAIN calls : Preferences(c)
  \/ \E c \in DOMAIN calls : Send(c)
  \/ \E c \in DOMAIN calls : Update(c)
  \/ \E c \in DOMAIN calls : Publish(c)
  \/ \E c \in DOMAIN calls : Catch(c)
  \/ SweepTick
  \/ \E s \in DOMAIN sweeps : SweepStep(s)
  \/ Advance

Spec == Init /\ [][Next]_vars

\* The service after initialize(), with or without the email channel
\* (initializeGoogleWorkspace leaves googleEmailService null when the
\* configuration is absent or invalid).
InitDispatch ==
  /\ now = 0
  /\ notifications = <<>>
  /\ preferences = {}
  /\ googleEmailService \in {"null", "ready"}
  /\ calls = <<>>
  /\ sweeps = <<>>
  /\ bulk = NoBulk
  /\ faults = 0
  /\ Quiet

\* The dispatch engine under the single-send endpoint, with users who change
\* their preferences.
NextDispatch ==
  \/ \E request \in DispatchRequests : ApiSend(request)
  \/ \E c \in DOMAIN calls : Save(c)
  \/ \E c \in DOMAIN calls : Preferences(c)
  \/ \E c \in DOMAIN calls : Cancel(c)
  \/ \E c \in DOMAIN calls : Send(c)
  \/ \E c \in DOMAIN calls : Update(c)
  \/ \E c \in DOMAIN calls : Publish(c)
  \/ \E c \in DOMAIN calls : Catch(c)
  \/ \E prefs \in PreferenceChoices : UpdatePreferences(prefs)

SpecDispatch == InitDispatch /\ [][NextDispatch]_vars

\* The dispatch engine under the bulk endpoint.
NextBulk ==
  \/ \E requests \in SeqsUpTo(BulkRequests, MaxBulk) : BulkStart(requests)
  \/ \E c \in DOMAIN calls : Save(c)
  \/ \E c \in DOMAIN calls : Preferences(c)
  \/ \E c \in DOMAIN calls : Send(c)
  \/ \E c \in DOMAIN calls : Update(c)
  \/ \E c \in DOMAIN calls : Publish(c)
  \/ \E c \in DOMAIN calls : Catch(c)
  \/ BulkRespond

SpecBulk == Init /\ [][NextBulk]_vars

\* Rows left pending by an earlier run of the service (a process that stopped
\* during a dispatch, or a status update that failed).
PendingRows ==
  { [ k \in 1..MaxRows |->
        NewRow(k, Request("U1", "in_app", priority[k], "work_item_assigned",
                          CompleteData, scheduledAt[k], NULL)) ] :
      priority \in [1..MaxRows -> Priorities],
      scheduledAt \in [1..MaxRows -> {0, MaxTime}] }

\* The service after initialize(), over a table that holds pending rows, at a
\* time when some, or all, of them are due.
InitSweep ==
  /\ now \in 0..MaxTime
  /\ notifications \in PendingRows
  /\ preferences = {}
  /\ googleEmailService = "ready"
  /\ calls = <<>>
  /\ sweeps = <<>>
  /\ bulk = NoBulk
  /\ faults = MaxFaults
  /\ Quiet

\* The background sweeper alone, during one reading of the clock and with
\* external services that answer.
NextSweep ==
  \/ SweepTick
  \/ \E s \in DOMAIN sweeps : SweepStep(s)
  \/ \E c \in DOMAIN calls : Save(c)
  \/ \E c \in DOMAIN calls : Preferences(c)
  \/ \E c \in DOMAIN calls : Send(c)
  \/ \E c \in DOMAIN calls : Update(c)
  \/ \E c \in DOMAIN calls : Publish(c)

SpecSweep == InitSweep /\ [][NextSweep]_vars

\* The service after initialize(), for a recipient with or without a stored
\* preference record, and with external services that answer.
InitFilter ==
  /\ now = 0
  /\ notifications = <<>>
  /\ preferences \in { {} } \cup { {prefs} : prefs \in FilterPreferences }
  /\ googleEmailService = "ready"
  /\ calls = <<>>
  /\ sweeps = <<>>
  /\ bulk = NoBulk
  /\ faults = MaxFaults
  /\ Quiet

\* The dispatch engine under the single-send endpoint, over stored preferences.
NextFilter ==
  \/ \E request \in FilterRequests : ApiSend(request)
  \/ \E c \in DOMAIN calls : Save(c)
  \/ \E c \in DOMAIN calls : Preferences(c)
  \/ \E c \in DOMAIN calls : Cancel(c)
  \/ \E c \in DOMAIN calls : Send(c)
  \/ \E c \in DOMAIN calls : Update(c)
  \/ \E c \in DOMAIN calls : Publish(c)
  \/ \E c \in DOMAIN calls : Catch(c)

SpecFilter == InitFilter /\ [][NextFilter]_vars

\* The email service after a startup that validated it: the transporter is
\* there and the token is fresh or of unknown expiry.
InitEmail ==
  /\ now = 0
  /\ notifications = <<>>
  /\ preferences = {}
  /\ googleEmailService = "ready"
  /\ calls = <<>>
  /\ sweeps = <<>>
  /\ bulk = NoBulk
  /\ faults = 0
  /\ processingInterval = "set"
  /\ ticks = NoTick
  /\ shutdown = "none"
  /\ mq = ConnectedBus
  /\ deliveries = <<>>
  /\ mailer \in { [ NoMailer EXCEPT !.accessToken = token, !.transporter = "ready" ] :
                     token \in {"absent", "valid"} }
  /\ reads = <<>>

\* The email channel transport alone.
NextEmail ==
  \/ \E request \in MailRequests : MailStart(request)
  \/ \E m \in DOMAIN mailer.sends : MailToken(m)
  \/ \E m \in DOMAIN mailer.sends : MailLookup(m)
  \/ \E m \in DOMAIN mailer.sends : MailSend(m)
  \/ TokenExpires
  \/ MailerClose

SpecEmail == InitEmail /\ [][NextEmail]_vars

\* Arrays given to sendBulkEmails: persisted email requests, some with a
\* template that is not in the map of compiled templates.
BulkMailRequests ==
  { [ Request("U1", "email", "medium", templateId, CompleteData, NULL, NULL)
        EXCEPT !.id = id ] :
      templateId \in {"work_item_assigned", "no_such_template"}, id \in 1..2 }

\* The bulk variant of the email channel transport.
NextBulkEmail ==
  \/ \E requests \in SeqsUpTo(BulkMailRequests, MaxBulk) :
       BulkMailStart(requests, {"work_item_assigned"})
  \/ BulkMailToken
  \/ BulkMailResume
  \/ \E m \in DOMAIN mailer.sends : MailToken(m)
  \/ \E m \in DOMAIN mailer.sends : MailLookup(m)
  \/ \E m \in DOMAIN mailer.sends : MailSend(m)
  \/ TokenExpires

SpecBulkEmail == InitEmail /\ [][NextBulkEmail]_vars

\* Tables at the start of the sweeper: empty, or holding one pending due row, on
\* a channel with a transport or on one without.
TimerRows ==
  { <<>> } \cup
  { << NewRow(1, Request("U1", channel, "medium", "work_item_assigned",
                         CompleteData, 0, NULL)) >> : channel \in {"email", "in_app", "push"} }

\* The sweeper after initialize(); one more failure of an external service is
\* left for the dispatches.
InitTimer ==
  /\ now = 0
  /\ notifications \in TimerRows
  /\ preferences = {}
  /\ googleEmailService = "ready"
  /\ calls = <<>>
  /\ sweeps = <<>>
  /\ bulk = NoBulk
  /\ faults = MaxFaults - 1
  /\ processingInterval = "set"
  /\ ticks = NoTick
  /\ shutdown = "none"
  /\ mq = ConnectedBus
  /\ deliveries = <<>>
  /\ mailer = NoMailer
  /\ reads = <<>>

\* The background sweeper with a database that fails pulls and updates.
NextTimer ==
  \/ SweepTickPulls
  \/ SweepTickFails
  \/ SweepTickEmpty
  \/ \E s \in DOMAIN sweeps : SweepStep(s)
  \/ \E c \in DOMAIN calls : Save(c)
  \/ \E c \in DOMAIN calls : Preferences(c)
  \/ \E c \in DOMAIN calls : Send(c)
  \/ \E c \in DOMAIN calls : Update(c)
  \/ \E c \in DOMAIN calls : Publish(c)
  \/ \E c \in DOMAIN calls : Catch(c)

\* setInterval fires its callback every period for as long as the interval is
\* set, and an await that can resume does resume.
SpecTimer ==
  /\ InitTimer
  /\ [][NextTimer]_vars
  /\ WF_vars(TimerCallback)


\* Messages the bus hands to the consumers: by consumer, the event type or
\* digest type of a body that parses, or a body that does not parse.
BusEvents ==
  { <<"workflow", "approval_requested">>, <<"workflow", "malformed">>,
    <<"work_item", "work_item_assigned">>, <<"work_item", "work_item_created">>,
    <<"digest", "daily">>, <<"digest", "malformed">>,
    <<"escalation", "escalation">> }

\* The service after initialize(), subscribed to the bus; one more failure of an
\* external service is left for the dispatches.
InitBus ==
  /\ now = 0
  /\ notifications = <<>>
  /\ preferences = {}
  /\ googleEmailService \in {"null", "ready"}
  /\ calls = <<>>
  /\ sweeps = <<>>
  /\ bulk = NoBulk
  /\ faults = MaxFaults - 1
  /\ Quiet

\* The consumers and the dispatches of their handlers, on a connection that can
\* be lost, is reconnected by a broker that stays up, and is closed at shutdown.
NextBus ==
  \/ \E event \in BusEvents : Deliver(event[1], event[2])
  \/ \E d \in DOMAIN deliveries : HandlerReturns(d)
  \/ \E c \in DOMAIN calls : Save(c)
  \/ \E c \in DOMAIN calls : Preferences(c)
  \/ \E c \in DOMAIN calls : Send(c)
  \/ \E c \in DOMAIN calls : Update(c)
  \/ \E c \in DOMAIN calls : Publish(c)
  \/ \E c \in DOMAIN calls : Catch(c)
  \/ ConnectionLost("up")
  \/ ReconnectWait
  \/ ConnectOpen
  \/ ConnectChannel
  \/ ConnectSetup
  \/ MqClose

SpecBus == InitBus /\ [][NextBus]_vars

\* Events of every type the two event handlers have a case for, and of a type
\* they have none for, each on the consumer whose handler names it.
TypedEvents ==
  { <<"workflow", type>> :
      type \in {"approval_requested", "escalation_triggered", "sla_breach",
                "workflow_started"} }
  \cup
  { <<"work_item", type>> :
      type \in {"work_item_created", "work_item_assigned", "work_item_completed",
                "work_item_deleted"} }

\* The workflow and work-item consumers and the dispatches of their handlers,
\* on a connection that stays up.
NextEvents ==
  \/ \E event \in TypedEvents : Deliver(event[1], event[2])
  \/ \E d \in DOMAIN deliveries : HandlerReturns(d)
  \/ \E c \in DOMAIN calls : Save(c)
  \/ \E c \in DOMAIN calls : Preferences(c)
  \/ \E c \in DOMAIN calls : Send(c)
  \/ \E c \in DOMAIN calls : Update(c)
  \/ \E c \in DOMAIN calls : Publish(c)
  \/ \E c \in DOMAIN calls : Catch(c)

SpecEvents == InitBus /\ [][NextEvents]_vars

\* Requests submitted to the single-send endpoint, on a channel whose outcome
\* events are routed to a queue and on one whose events are not, of types the
\* workflow handler has a case for and of one it has none for.
TypedRequests ==
  { [ Request("U1", channel, "high", type, templates[type], NULL, NULL)
        EXCEPT !.type = type ] :
      channel \in {"email", "in_app"},
      type \in {"approval_requested", "escalation_triggered", "work_item_assigned"} }

\* The service after initialize(), with or without the email channel; one more
\* failure of an external service is left for the dispatches.
InitLoop ==
  /\ now = 0
  /\ notifications = <<>>
  /\ preferences = {}
  /\ googleEmailService \in {"null", "ready"}
  /\ calls = <<>>
  /\ sweeps = <<>>
  /\ bulk = NoBulk
  /\ faults = MaxFaults - 1
  /\ Quiet

\* The single-send endpoint, the dispatch engine and the workflow consumer on
\* the queue the outcome events are routed to.
NextLoop ==
  \/ \E request \in TypedRequests : ApiSend(request)
  \/ \E c \in DOMAIN calls : Save(c)
  \/ \E c \in DOMAIN calls : Preferences(c)
  \/ \E c \in DOMAIN calls : Send(c)
  \/ \E c \in DOMAIN calls : Update(c)
  \/ \E c \in DOMAIN calls : Publish(c)
  \/ \E c \in DOMAIN calls : Catch(c)
  \/ \E c \in DOMAIN calls : DeliverPublished(c)
  \/ \E d \in DOMAIN deliveries : HandlerReturns(d)

SpecLoop == InitLoop /\ [][NextLoop]_vars

\* The bus connection alone.
NextReconnect ==
  \/ \E brokerAfter \in {"up", "down"} : ConnectionLost(brokerAfter)
  \/ BrokerChanges
  \/ ReconnectWait
  \/ ConnectOpen
  \/ ConnectChannel
  \/ ConnectSetup
  \/ ReconnectRetry
  \/ MqClose

\* Timers that are armed fire and awaits that can resume do resume.
SpecReconnect ==
  /\ Init
  /\ [][NextReconnect]_vars
  /\ WF_vars(ReconnectStep)


\* The preferences endpoints: users store preferences and read them.
NextPreferences ==
  \/ \E prefs \in StoredChoices : UpdatePreferences(prefs)
  \/ \E userId \in ReadUsers, tenantId \in ReadTenants, db \in {"answers", "raises"} :
       ReadPreferences(userId, tenantId, db)

SpecPreferences == Init /\ [][NextPreferences]_vars

\* The time of the first tick over a backlog.
PageTime == SweepLimit + 4

\* A backlog the service finds at startup, larger than one page.  Row 1 is
\* pending but expired, row 2 pending but scheduled for later, row 3 due but
\* already sent; the rows after them, one more than a page holds, are pending,
\* scheduled at different times up to PageTime, and either without expiry or
\* expiring later.  Rows 1 and 2 have the priority that sorts first.
PageRows ==
  [ k \in 1..(SweepLimit + 4) |->
      IF k = 1
      THEN NewRow(k, Request("U1", "in_app", "medium", "work_item_assigned",
                             CompleteData, 0, 0))
      ELSE IF k = 2
      THEN NewRow(k, Request("U1", "in_app", "medium", "work_item_assigned",
                             CompleteData, PageTime + 1, NULL))
      ELSE IF k = 3
      THEN [ NewRow(k, Request("U1", "in_app", "medium", "work_item_assigned",
                               CompleteData, 0, NULL))
               EXCEPT !.status = "sent", !.sentAt = 0 ]
      ELSE NewRow(k, Request("U1", "in_app", "low", "work_item_assigned",
                             CompleteData, k,
                             IF k % 2 = 0 THEN NULL ELSE PageTime + 1)) ]

\* The service after initialize() over the backlog, when all of its last rows
\* are due.
InitPage ==
  /\ now = PageTime
  /\ notifications = PageRows
  /\ preferences = {}
  /\ googleEmailService = "ready"
  /\ calls = <<>>
  /\ sweeps = <<>>
  /\ bulk = NoBulk
  /\ faults = MaxFaults
  /\ Quiet

\* Line 119 in the calls of one batch: each takes a client of the pool and sends
\* its INSERT.  The ids the database generates are interchangeable, so the
\* INSERTs of the model are taken in the order the calls were started.
SaveInTurn(c) ==
  /\ \A d \in 1..(c - 1) : calls[d].pc # "save"
  /\ Save(c)

\* The first sweep over the backlog, with external services that answer.
NextPage ==
  \/ FirstSweepTick
  \/ \E s \in DOMAIN sweeps : SweepStep(s)
  \/ \E c \in DOMAIN calls : SaveInTurn(c)
  \/ \E c \in DOMAIN calls : Preferences(c)
  \/ \E c \in DOMAIN calls : Send(c)
  \/ \E c \in DOMAIN calls : Update(c)
  \/ \E c \in DOMAIN calls : Publish(c)

SpecPage == InitPage /\ [][NextPage]_vars

\* The service after initialize(), with external services that answer.
InitShutdown ==
  /\ now = 0
  /\ notifications \in TimerRows
  /\ preferences = {}
  /\ googleEmailService = "ready"
  /\ calls = <<>>
  /\ sweeps = <<>>
  /\ bulk = NoBulk
  /\ faults = MaxFaults
  /\ Quiet

\* databaseService.close() has not ended the pool.
PoolOpen == shutdown # "done"

\* A database call of a dispatch after the pool has ended: pool.connect()
\* rejects, in the try block or in the catch block.
PoolEnded(c) ==
  LET call == calls[c]
  IN  /\ ~PoolOpen
      /\ \/ /\ call.pc \in {"save", "preferences"}
            /\ calls' = [ calls EXCEPT ![c] = Throw(@, call.pc, ErrDatabase) ]
         \/ /\ call.pc \in {"cancel", "update"}
            /\ calls' = [ calls EXCEPT
                            ![c] = Throw([ @ EXCEPT !.updateRaised = TRUE ],
                                         "update", ErrDatabase) ]
         \/ /\ call.pc = "catch"
            /\ call.request.id # NoId
            /\ calls' = [ calls EXCEPT
                            ![c] = Reject([ @ EXCEPT !.updateRaised = TRUE ],
                                          ErrDatabase) ]
      /\ UNCHANGED <<now, notifications, preferences, googleEmailService, sweeps,
                     bulk, faults, serviceVars>>

\* The sweeper and a shutdown: close() is called at any time, also while a
\* tick is dispatching.
NextShutdown ==
  \/ SweepTickPulls
  \/ SweepTickFails
  \/ SweepTickEmpty
  \/ \E s \in DOMAIN sweeps : SweepStep(s)
  \/ \E c \in DOMAIN calls : PoolOpen /\ Save(c)
  \/ \E c \in DOMAIN calls : PoolOpen /\ Preferences(c)
  \/ \E c \in DOMAIN calls : Send(c)
  \/ \E c \in DOMAIN calls : PoolOpen /\ Update(c)
  \/ \E c \in DOMAIN calls : Publish(c)
  \/ \E c \in DOMAIN calls : PoolOpen /\ Catch(c)
  \/ \E c \in DOMAIN calls : PoolEnded(c)
  \/ ServiceClose
  \/ ServiceCloseBus
  \/ ServiceCloseDatabase

SpecShutdown == InitShutdown /\ [][NextShutdown]_vars

\* A backlog smaller than one batch: pending email rows scheduled at different
\* times, all due.
BacklogRows ==
  [ k \in 1..MaxBacklog |->
      NewRow(k, Request("U1", "email", "medium", "work_item_assigned",
                        CompleteData, k - 1, NULL)) ]

\* The service after initialize() over the small backlog.
InitOverlap ==
  /\ now = MaxBacklog
  /\ notifications = BacklogRows
  /\ preferences = {}
  /\ googleEmailService = "ready"
  /\ calls = <<>>
  /\ sweeps = <<>>
  /\ bulk = NoBulk
  /\ faults = MaxFaults
  /\ Quiet

\* Line 142: setInterval fires the callback every 30 seconds, whether or not
\* the processPendingNotifications of an earlier callback has returned.  The
\* ticks followed are those whose page is no larger than the backlog.
IntervalTick ==
  /\ Len(sweeps) < MaxTicks
  /\ Len(calls) + PageSize(SweepLimit) <= MaxTicks * MaxBacklog
  /\ StartSweep

\* The sweeper over the small backlog, with dispatches that may take longer
\* than the period of the timer and external services that answer.
NextOverlap ==
  \/ IntervalTick
  \/ \E s \in DOMAIN sweeps : SweepStep(s)
  \/ \E c \in DOMAIN calls : SaveInTurn(c)
  \/ \E c \in DOMAIN calls : Preferences(c)
  \/ \E c \in DOMAIN calls : Send(c)
  \/ \E c \in DOMAIN calls : Update(c)
  \/ \E c \in DOMAIN calls : Publish(c)

SpecOverlap == InitOverlap /\ [][NextOverlap]_vars

----------------------------------------------------------------------------
(* Properties of the dispatch engine *)

Done(c) == calls[c].pc = "done"

RECURSIVE RootOf(_)
\* The record a dispatch goes back to: the one its request was first persisted
\* as.  A request pulled by the sweep comes with the id of the row it was read
\* from, and that row was written by the dispatch that persisted it.
RootOf(c) ==
  IF calls[c].entryId = NoId THEN calls[c].notificationId
  ELSE IF \E d \in DOMAIN calls : calls[d].notificationId = calls[c].entryId
  THEN RootOf(CHOOSE d \in DOMAIN calls : calls[d].notificationId = calls[c].entryId)
  ELSE calls[c].entryId

\* The transport invocations made for the request persisted as row id.
TransportCalls(id) ==
  Cardinality({ c \in DOMAIN calls : RootOf(c) = id /\ calls[c].transport > 0 })

\* C1: for any persisted request the channel transport is invoked at most once,
\* over any interleaving of direct dispatch and sweep ticks: a request that is
\* being dispatched or has been dispatched is not dispatched again by a sweep.
C1_AtMostOneTransportCall ==
  \A id \in DOMAIN notifications : TransportCalls(id) <= 1

\* The persisted record of a call that has saved its request.
RowOf(c) == notifications[calls[c].notificationId]

C3_RenderOrTransportFailureReturned ==
  \A c \in DOMAIN calls :
    (Done(c) /\ (calls[c].raisedAt = "render" \/ calls[c].response.status = "failed")) =>
      /\ calls[c].outcome = "fulfilled"
      /\ calls[c].returned.status = "failed"
      /\ calls[c].returned.error # NoError
      /\ calls[c].returned.error # Undefined

\* C4: no error raised by updateNotificationStatus escapes sendNotification; the
\* call completes by returning a 'failed' response.
C4_UpdateErrorReturned ==
  \A c \in DOMAIN calls :
    (Done(c) /\ calls[c].updateRaised) =>
      /\ calls[c].outcome = "fulfilled"
      /\ calls[c].returned.status = "failed"

\* C5: when publishing the outcome event fails after the transport returned a
\* response, the returned response and the persisted status are still the
\* transport's outcome.
C5_PublishFailureKeepsOutcome ==
  \A c \in DOMAIN calls :
    (Done(c) /\ calls[c].raisedAt = "publish") =>
      /\ calls[c].outcome = "fulfilled"
      /\ calls[c].returned = calls[c].response
      /\ RowOf(c).status = calls[c].response.status

\* Whether the request of a call had expired when the call was made.
Expired(c) ==
  calls[c].request.expiresAt # NULL /\ calls[c].request.expiresAt < calls[c].at

\* C6: a request whose expiresAt is already past when it is dispatched resolves
\* to 'failed' and no transport is invoked for it.
C6_ExpiredNotDelivered ==
  \A c \in DOMAIN calls :
    Expired(c) =>
      /\ calls[c].transport = 0
      /\ Done(c) => calls[c].returned.status = "failed"

\* C7: no transport call is made for a request before its scheduledAt time.
C7_NotBeforeScheduledAt ==
  \A c \in DOMAIN calls :
    (calls[c].transport > 0 /\ calls[c].request.scheduledAt # NULL) =>
      calls[c].request.scheduledAt <= calls[c].transportAt

----------------------------------------------------------------------------
(* Properties of the bulk endpoint *)

\* Whether the dispatch of a request gets as far as rendering and fails there.
FailsRendering(request) ==
  /\ request.channel = "email"
  /\ googleEmailService # "null"
  /\ compileTemplate(request.templateId, request.data) # NoError

\* Whether a request names a known template and carries its variables.
IsValid(request) == compileTemplate(request.templateId, request.data) = NoError

\* A bulk request that was answered, in which exactly item k fails rendering and
\* every other item is valid, and during which no external service failed.
OneItemFailsRendering(k) ==
  /\ bulk.state = "responded"
  /\ faults = 0
  /\ Quiet
  /\ k \in DOMAIN bulk.notifications
  /\ FailsRendering(bulk.notifications[k])
  /\ \A j \in DOMAIN bulk.notifications \ {k} : IsValid(bulk.notifications[j])

\* C8: when exactly one item k of a bulk request fails rendering and the others
\* are valid, the answer holds N results, exactly one of them (k's) with
\* success false, and the others are successes with the status they would have
\* had alone.
C8_BulkOneFailure ==
  \A k \in DOMAIN bulk.notifications :
    OneItemFailsRendering(k) =>
      /\ Len(bulk.response.results) = Len(bulk.notifications)
      /\ \A j \in DOMAIN bulk.response.results :
           /\ bulk.response.results[j].success = (j # k)
           /\ j # k => bulk.response.results[j].notification.status = "sent"

\* Whether `result` is the outcome of the k-th input of the bulk request: it
\* reports the settlement of the dispatch started for that input, and the
\* record it names stores that input.
IsOutcomeOf(result, k) ==
  LET call == calls[bulk.calls[k]]
      input == bulk.notifications[k]
  IN  /\ [ call.request EXCEPT !.id = NoId ] = input
      /\ result.success = (call.outcome = "fulfilled")
      /\ result.success => result.notification = call.returned
      /\ ~result.success => result.error = call.error
      /\ result.notification.id # NoId =>
           LET row == notifications[result.notification.id]
           IN  /\ row.channel = input.channel
               /\ row.templateId = input.templateId
               /\ row.data = input.data
               /\ row.status = result.notification.status

\* C9: the bulk endpoint answers N inputs with N results; the result at
\* position i carries index i and is the outcome of the i-th input, in whatever
\* order the dispatches complete; successful + failed = processed = N.
C9_BulkResultsByIndex ==
  bulk.state = "responded" =>
    LET results == bulk.response.results
        N == Len(bulk.notifications)
    IN  /\ Len(results) = N
        /\ \A k \in 1..N : results[k].index = k - 1 /\ IsOutcomeOf(results[k], k)
        /\ bulk.response.processed = N
        /\ bulk.response.successful + bulk.response.failed = bulk.response.processed

\* A bulk request was answered whose second input was persisted before its
\* first and whose items ended differently.
C9_Witness ==
  /\ bulk.state = "responded"
  /\ Len(bulk.notifications) >= 2
  /\ bulk.response.results[1].success
  /\ bulk.response.results[2].success
  /\ bulk.response.results[1].notification.id > bulk.response.results[2].notification.id
  /\ bulk.response.results[2].notification.id # NoId
  /\ bulk.response.results[1].notification.status #
       bulk.response.results[2].notification.status

----------------------------------------------------------------------------
(* Properties of the background sweep *)

\* The order of the priority enumeration: low < medium < high < critical.
PriorityRank == [ low |-> 1, medium |-> 2, high |-> 3, critical |-> 4 ]

\* C10: each sweep hands its page to the batch controller ordered by priority
\* descending (critical > high > medium > low) and by scheduledAt ascending
\* within a priority.
C10_SweepOrder ==
  \A s \in DOMAIN sweeps :
    \A i, j \in DOMAIN sweeps[s].page :
      i < j =>
        LET a == sweeps[s].page[i]
            b == sweeps[s].page[j]
        IN  \/ PriorityRank[a.priority] > PriorityRank[b.priority]
            \/ /\ a.priority = b.priority
               /\ a.scheduledAt <= b.scheduledAt

----------------------------------------------------------------------------
(* Properties of the sweep timer *)

\* C11: a sweep tick that fails (the pull, or a dispatch inside it, throws) is
\* caught and never stops the periodic sweeper: while the interval is set, after
\* any tick, failed ones included, a further tick fires.
C11_TicksKeepFiring ==
  /\ (processingInterval = "set" /\ ticks.fired = 0)
       ~> (ticks.fired = 1 \/ processingInterval = "null")
  /\ (processingInterval = "set" /\ ticks.fired = 1)
       ~> (ticks.fired = 0 \/ processingInterval = "null")
  /\ [](ticks.last = "failed" => processingInterval = "set")

\* A tick fired after a tick that failed at its pull and after a dispatch
\* started by a tick threw.
C11_Witness == ticks.after

----------------------------------------------------------------------------
(* Properties of the preference filter *)

\* The reference rule list of the filter, first match wins: no stored
\* preferences, send; a type entry with enabled false, do not send; a type
\* entry whose channels lack the channel of the request, do not send; otherwise
\* the global switch of the channel, and send on a channel without a switch.
ReferenceDecision(request, found) ==
  IF found = {} THEN TRUE
  ELSE LET prefs == CHOOSE row \in found : TRUE
           types == prefs.notificationTypes
       IN  IF request.type \in DOMAIN types /\ types[request.type].enabled = FALSE
           THEN FALSE
           ELSE IF /\ request.type \in DOMAIN types
                   /\ request.channel \notin types[request.type].channels
           THEN FALSE
           ELSE IF request.channel = "email" THEN prefs.emailNotifications
           ELSE IF request.channel = "in_app" THEN prefs.inAppNotifications
           ELSE IF request.channel = "sms" THEN prefs.smsNotifications
           ELSE IF request.channel = "push" THEN prefs.pushNotifications
           ELSE TRUE

\* C12: the decision the dispatch takes on (request, stored preferences) is the
\* one of the reference rule list, and taking it changes neither the request
\* nor the stored preferences.
C12_FilterIsReference ==
  [][ \A c \in DOMAIN calls :
        (calls[c].pc = "preferences" /\ calls'[c].pc \in {"send", "cancel"}) =>
          /\ (calls'[c].pc = "send") =
               ReferenceDecision(calls[c].request,
                                 getNotificationPreferences(calls[c].request.recipientId,
                                                            calls[c].request.tenantId))
          /\ calls'[c].request = calls[c].request
          /\ preferences' = preferences ]_vars

\* The filter let a request through on the global switch of its channel, with
\* a type entry that allows the channel.
C12_Witness ==
  \E c \in DOMAIN calls :
    /\ calls[c].filter = "true"
    /\ calls[c].request.channel = "sms"
    /\ \E prefs \in preferences :
         /\ calls[c].request.type \in DOMAIN prefs.notificationTypes
         /\ prefs.smsNotifications

----------------------------------------------------------------------------
(* Properties of the email channel transport *)

\* C13: sendEmail never throws: a failure of the token refresh, of the
\* transporter, of the recipient lookup or of the mail send is returned as a
\* response with status 'failed', the error set and failedAt stamped.
C13_SendEmailNeverThrows ==
  \A m \in DOMAIN mailer.sends :
    LET mail == mailer.sends[m]
    IN  mail.pc = "done" =>
          /\ mail.outcome = "fulfilled"
          /\ mail.raisedAt # "none" =>
                /\ mail.returned.status = "failed"
                /\ mail.returned.error \notin {Undefined, NoError}
                /\ mail.returned.failedAt # NULL

\* A sendEmail whose mail send raised has returned a 'failed' response.
C13_Witness ==
  \E m \in DOMAIN mailer.sends :
    /\ mailer.sends[m].raisedAt = "send"
    /\ mailer.sends[m].outcome = "fulfilled"
    /\ mailer.sends[m].returned.status = "failed"

\* C19: the html handed to the mail transport holds the tracking pixel keyed by
\* the notification id if and only if the priority of the request is high or
\* critical; for low and medium it is the rendered body unchanged.
C19_TrackingPixel ==
  \A m \in DOMAIN mailer.sends :
    LET mail == mailer.sends[m]
    IN  mail.handed.body # Undefined =>
          /\ mail.handed.body = RenderedHtml(mail.request).body
          /\ IF mail.request.priority \in {"high", "critical"}
             THEN mail.handed.pixels = <<mail.request.id>>
             ELSE mail.handed = RenderedHtml(mail.request)

\* A critical request with id 2 was handed to the transport with its pixel.
C19_Witness ==
  \E m \in DOMAIN mailer.sends :
    /\ mailer.sends[m].request.priority = "critical"
    /\ mailer.sends[m].request.id = 2
    /\ mailer.sends[m].handed.pixels = <<2>>
    /\ mailer.sends[m].returned.status = "sent"


----------------------------------------------------------------------------
(* Properties of the email channel when it is unavailable *)

\* C14: when the email service was left null at startup (credentials absent or
\* invalid), every email dispatch that reaches the channel resolves to a 'failed'
\* response, and no mail transport is called for it.
C14_EmailUnavailableFails ==
  \A c \in DOMAIN calls :
    ( /\ googleEmailService = "null"
      /\ calls[c].request.channel = "email"
      /\ calls[c].raisedAt = "channel"
      /\ Done(c) ) =>
      /\ calls[c].transport = 0
      /\ calls[c].outcome = "fulfilled"
      /\ calls[c].returned.status = "failed"


----------------------------------------------------------------------------
(* Properties of the bus consumers and of the reconnect loop *)

\* C15: every message consumed from the bus gets exactly one acknowledgement
\* decision: an ack if and only if its handler completed successfully, and on
\* handler failure a nack that does not requeue on the workflow and work-item
\* consumers and requeues on the digest and escalation consumers.
C15_OneAckDecision ==
  \A d \in DOMAIN deliveries :
    deliveries[d].pc = "done" =>
      /\ Len(deliveries[d].decisions) = 1
      /\ (deliveries[d].decisions[1].kind = "ack") = (deliveries[d].handler = "ok")
      /\ deliveries[d].decisions[1].kind = "nack" =>
           deliveries[d].decisions[1].requeue =
             (deliveries[d].consumer \in {"digest", "escalation"})

\* Whether the service holds an established connection.
Connected == mq.connection = "open" /\ mq.channel = "open" /\ mq.listening

\* C16: when the bus connection closes the service keeps trying to reconnect
\* after a fixed delay: a failed attempt arms the next one and no error leaves
\* the loop, so if the broker ends up accepting connections the service ends up
\* connected again.
C16_ReconnectsForever ==
  /\ [](~mq.escaped)
  /\ []((~Connected /\ mq.losses > 0) => mq.reconnect # "idle")
  /\ [](mq.delay \in {0, ReconnectDelay, RetryDelay + ReconnectDelay})
  /\ (<>[](mq.broker = "up")) => ((mq.losses > 0 /\ ~Connected) ~> Connected)

\* The service is connected again after a reconnect attempt failed.
C16_Witness ==
  /\ Connected
  /\ mq.losses > 0
  /\ mq.attempts > 1
  /\ mq.delay = RetryDelay + ReconnectDelay


----------------------------------------------------------------------------
(* Properties of persistence *)

\* C17: dispatching a request that already has an id (one pulled by the sweep)
\* creates no new record: the id it is dispatched under is the id it came with,
\* and the outcome of the dispatch is written to the record with that id.
C17_ExistingIdKept ==
  \A c \in DOMAIN calls :
    (calls[c].entryId # NoId /\ calls[c].notificationId # NoId) =>
      /\ calls[c].notificationId = calls[c].entryId
      /\ calls[c].request.id = calls[c].entryId
      /\ (Done(c) /\ calls[c].outcome = "fulfilled") =>
           notifications[calls[c].entryId].status = calls[c].returned.status


----------------------------------------------------------------------------
(* Properties of the preferences read *)

\* The read this step answers: the input is valid and `r` is appended to reads.
Answers(r) == reads' = Append(reads, r) /\ r.userId # "" /\ r.tenantId # ""

\* What C18 says of an answer r, over the table as it is when the read is made.
DefaultOrStored(r) ==
  LET stored == { row \in preferences :
                    row.userId = r.userId /\ row.tenantId = r.tenantId }
  IN  /\ r.status = 200
      /\ r.isDefault = (stored = {})
      /\ stored = {} =>
           \E body \in r.preferences :
             /\ r.preferences = {body}
             /\ body.userId = r.userId
             /\ body.tenantId = r.tenantId
             /\ body.emailNotifications
             /\ ~body.smsNotifications
             /\ body.digestFrequency = "daily"
      /\ stored # {} => r.preferences = stored
      /\ preferences' = preferences

----------------------------------------------------------------------------
(* Properties of the status of a persisted request *)

\* C20: once the status of a persisted request is cancelled, failed or sent, no
\* later step of the dispatch engine changes it: terminal statuses are
\* absorbing, and a request recorded 'sent' is never recorded 'failed' afterwards.
C20_TerminalAbsorbing ==
  [][ \A i \in DOMAIN notifications :
        notifications[i].status \in {"cancelled", "failed", "sent"} =>
          notifications'[i].status = notifications[i].status ]_vars


----------------------------------------------------------------------------
(* Properties of the lifecycle of a dispatch *)

\* The status changes of the state machine
\* pending -> {cancelled | sending -> {sent | failed}}.
Lifecycle ==
  { <<"pending", "cancelled">>, <<"pending", "sending">>,
    <<"sending", "sent">>, <<"sending", "failed">> }

\* C21: every status change of a persisted request follows the state machine
\* pending -> cancelled, pending -> sending, sending -> sent, sending -> failed,
\* and the persisted status of a request is 'sending' when its transport is
\* called.
C21_StatusMachine ==
  [][ /\ \A i \in DOMAIN notifications :
           notifications'[i].status # notifications[i].status =>
             <<notifications[i].status, notifications'[i].status>> \in Lifecycle
      /\ \A c \in DOMAIN calls :
           calls'[c].transport > calls[c].transport =>
             RowOf(c).status = "sending" ]_vars


\* The order of the awaits of sendNotification: from each position the next one,
\* the catch block when the await throws, and the return.
StepOrder ==
  { <<"save", "preferences">>, <<"preferences", "cancel">>, <<"preferences", "send">>,
    <<"cancel", "done">>, <<"send", "update">>, <<"update", "publish">>,
    <<"publish", "done">>, <<"catch", "done">> }
  \cup { <<pc, "catch">> : pc \in {"save", "preferences", "cancel", "send", "update", "publish"} }

\* C22: within one sendNotification call the steps occur strictly in the order
\* persist request -> preference filter -> render and transport -> persist
\* transport response -> publish event, each after the previous one completed:
\* no transport is invoked before the request is persisted and filtered, and no
\* event is published before the transport response is persisted.
C22_StepsInOrder ==
  [][ \A c \in DOMAIN calls :
        /\ calls'[c].pc # calls[c].pc => <<calls[c].pc, calls'[c].pc>> \in StepOrder
        /\ calls'[c].notificationId # calls[c].notificationId =>
             /\ calls[c].pc = "save"
             /\ Len(notifications') = Len(notifications) + 1
        /\ calls'[c].filter # calls[c].filter =>
             /\ calls[c].pc = "preferences"
             /\ calls[c].notificationId \in DOMAIN notifications
        /\ calls'[c].transport > calls[c].transport =>
             /\ calls[c].pc = "send"
             /\ calls[c].notificationId \in DOMAIN notifications
             /\ calls[c].filter \in {"absent", "true"}
        /\ ( /\ calls[c].notificationId \in DOMAIN notifications
             /\ notifications'[calls[c].notificationId] # RowOf(c) ) =>
             calls[c].pc \in {"cancel", "update", "catch"}
        /\ calls'[c].event # calls[c].event =>
             /\ calls[c].pc = "publish"
             /\ calls[c].transport = 1
             /\ RowOf(c).status = calls[c].response.status ]_vars

\* A dispatch went through every step: filtered by a stored record, transported,
\* persisted and published.
C22_Witness ==
  \E c \in DOMAIN calls :
    /\ Done(c)
    /\ calls[c].outcome = "fulfilled"
    /\ calls[c].filter = "true"
    /\ calls[c].transport = 1
    /\ calls[c].event # Undefined
    /\ RowOf(c).status = "sent"


----------------------------------------------------------------------------
(* Properties of the outcome event *)

\* C23: for every dispatch in which the transport returns a response, exactly one
\* event is published, after the response is persisted, under the routing key
\* notification.<channel>.<status> of the request's channel and the transport's
\* status.
C23_OneEventPerTransport ==
  \A c \in DOMAIN calls :
    (Done(c) /\ calls[c].transport > 0) =>
      /\ calls[c].event # Undefined
      /\ calls[c].event = RoutingKey(calls[c].request.channel, calls[c].response.status)
      /\ RowOf(c).status = calls[c].response.status


\* C24: a dispatch cancelled by the preference filter publishes no event and
\* calls no transport: when it has returned 'cancelled', its effects are the
\* record it created and the status 'cancelled' of that record.
C24_CancelledPublishesNothing ==
  \A c \in DOMAIN calls :
    calls[c].filter = "false" =>
      /\ calls[c].event = Undefined
      /\ calls[c].transport = 0
      /\ ( /\ Done(c)
           /\ calls[c].outcome = "fulfilled"
           /\ calls[c].returned.status = "cancelled" ) =>
           /\ RowOf(c) = [ NewRow(calls[c].notificationId, calls[c].request)
                             EXCEPT !.status = "cancelled" ]
           /\ Len(notifications) =
                Cardinality({ d \in DOMAIN calls : calls[d].notificationId # NoId })

\* A dispatch suppressed by the filter has returned 'cancelled' with no event.
C24_Witness ==
  \E c \in DOMAIN calls :
    /\ calls[c].filter = "false"
    /\ Done(c)
    /\ calls[c].returned.status = "cancelled"
    /\ calls[c].event = Undefined
    /\ RowOf(c).status = "cancelled"
    /\ RowOf(c).error = Undefined


\* C25: when template rendering fails (unknown template id or missing required
\* variable) the request becomes 'failed' with the error message, the failure is
\* persisted, and a failure event is published before sendNotification returns.
C25_RenderFailurePublished ==
  \A c \in DOMAIN calls :
    (Done(c) /\ calls[c].raisedAt = "render" /\ ~calls[c].updateRaised) =>
      /\ calls[c].outcome = "fulfilled"
      /\ calls[c].returned.status = "failed"
      /\ calls[c].returned.error = calls[c].error
      /\ RowOf(c).status = "failed"
      /\ RowOf(c).error = calls[c].error
      /\ calls[c].event # Undefined

----------------------------------------------------------------------------
(* Properties of the channels *)

\* C26: a request whose channel has no transport is a per-request error:
\* sendNotification does not throw, it resolves to 'failed' with the
\* unsupported-channel error, persists that status and invokes no transport.
C26_UnsupportedChannelFails ==
  \A c \in DOMAIN calls :
    ( /\ Done(c)
      /\ calls[c].request.channel \notin SupportedChannels
      /\ calls[c].raisedAt = "channel" ) =>
      /\ calls[c].transport = 0
      /\ calls[c].outcome = "fulfilled"
      /\ calls[c].returned.status = "failed"
      /\ calls[c].returned.error = ErrUnsupportedChannel
      /\ RowOf(c).status = "failed"

\* C27: on every channel other than email a dispatch that passes the preference
\* filter resolves to 'sent' through a stub, whenever the database and the bus
\* answer.
C27_OtherChannelsSent ==
  \A c \in DOMAIN calls :
    ( /\ Done(c)
      /\ calls[c].request.channel # "email"
      /\ calls[c].filter \in {"absent", "true"}
      /\ calls[c].raisedAt \in {"none", "channel"}
      /\ ~calls[c].updateRaised ) =>
      /\ calls[c].outcome = "fulfilled"
      /\ calls[c].returned.status = "sent"
      /\ RowOf(c).status = "sent"

----------------------------------------------------------------------------
(* Properties of the preference filter without a stored record *)

\* C28: when no preferences record is stored for the recipient the dispatch
\* behaves as under the permissive default, every channel enabled except SMS: a
\* request on the sms channel is cancelled with no transport call, and a request
\* on another channel proceeds to its channel.
C28_AbsentRecordIsDefault ==
  \A c \in DOMAIN calls :
    calls[c].filter = "absent" =>
      IF calls[c].request.channel = "sms"
      THEN /\ calls[c].transport = 0
           /\ calls[c].pc \in {"cancel", "done"}
           /\ Done(c) => calls[c].returned.status = "cancelled"
      ELSE calls[c].pc # "cancel" /\ calls[c].response.status # "cancelled"


----------------------------------------------------------------------------
(* Properties of the error field *)

\* Whether a response, or a record, carries an error message.
HasError(x) == x.error # Undefined /\ x.error # NoError

\* C29: in every response sendNotification returns and in every persisted
\* record, the error field is present if and only if the status is 'failed'.
C29_ErrorIffFailed ==
  /\ \A c \in DOMAIN calls :
       calls[c].outcome = "fulfilled" =>
         (HasError(calls[c].returned) <=> calls[c].returned.status = "failed")
  /\ \A i \in DOMAIN notifications :
       HasError(notifications[i]) <=> notifications[i].status = "failed"

\* A dispatch returned 'failed' with its error, and the record holds both.
C29_Witness ==
  \E c \in DOMAIN calls :
    /\ Done(c)
    /\ calls[c].outcome = "fulfilled"
    /\ calls[c].returned.status = "failed"
    /\ HasError(calls[c].returned)
    /\ calls[c].notificationId # NoId
    /\ RowOf(c).status = "failed"
    /\ RowOf(c).error = calls[c].returned.error

\* The sweeps started in this step.
Pulled == DOMAIN sweeps' \ DOMAIN sweeps

\* C30: every request a sweep tick dispatches was, when the tick pulled its
\* page, a row with status 'pending', scheduled no later than now and either
\* without expiry or expiring later than now; the page holds at most 50
\* requests, every dispatch of a tick is the dispatch of a request of its page,
\* and no tick dispatches more than 50.
C30_SweepPullsDue ==
  /\ [][ \A s \in Pulled :
           /\ Len(sweeps'[s].page) <= SweepLimit
           /\ \A k \in DOMAIN sweeps'[s].page :
                LET id == sweeps'[s].page[k].id
                IN  /\ id \in DOMAIN notifications
                    /\ notifications[id].status = "pending"
                    /\ notifications[id].scheduledAt <= now
                    /\ \/ notifications[id].expiresAt = NULL
                       \/ notifications[id].expiresAt > now
                    /\ sweeps'[s].page[k] = RowRequest(notifications[id]) ]_vars
  /\ [][ \A c \in DOMAIN calls' \ DOMAIN calls :
           calls'[c].caller = "sweep" =>
             \E t \in DOMAIN sweeps' :
               /\ c \in sweeps'[t].batch
               /\ \E k \in DOMAIN sweeps'[t].page :
                    /\ calls'[c].request = sweeps'[t].page[k]
                    /\ calls'[c].entryId = sweeps'[t].page[k].id ]_vars
  /\ [](\A s \in DOMAIN sweeps :
          Cardinality({ c \in DOMAIN calls :
                          /\ calls[c].caller = "sweep"
                          /\ \E k \in DOMAIN sweeps[s].page :
                               calls[c].entryId = sweeps[s].page[k].id })
            <= SweepLimit)

\* A tick whose page is full has dispatched all of it and left out a row that
\* was due, as well as the expired row and the row scheduled for later.
C30_Witness ==
  \E s \in DOMAIN sweeps :
    /\ sweeps[s].done
    /\ Len(sweeps[s].page) = SweepLimit
    /\ Cardinality({ c \in DOMAIN calls :
                       calls[c].caller = "sweep" /\ Done(c) }) = SweepLimit
    /\ \A k \in DOMAIN sweeps[s].page : sweeps[s].page[k].id \notin {1, 2, 3}
    /\ \E i \in DOMAIN PageRows :
         /\ notifications[i].status = "pending"
         /\ notifications[i].scheduledAt <= now
         /\ notifications[i].expiresAt = NULL \/ notifications[i].expiresAt > now
         /\ \A k \in DOMAIN sweeps[s].page : sweeps[s].page[k].id # i

\* The dispatches the sweep path started that have not settled.
InFlight ==
  { c \in DOMAIN calls : calls[c].caller = "sweep" /\ calls[c].outcome = "pending" }

\* C31: at any moment at most 5 dispatches started by the background sweep are
\* in flight.
C31_AtMostFiveInFlight == Cardinality(InFlight) <= concurrency

\* C32: every sendEmail starts with the check of the credential.  When the
\* check finds it absent or expiring within a minute, either the refresh and the
\* re-initialization of the transporter both succeed, or the sendEmail ends
\* 'failed' with nothing handed to the mail transport; when the check finds it
\* valid, neither the credential nor the transporter is touched.  The mail is
\* handed to the transport only after the check and the recipient lookup.
C32_TokenCheckedBeforeSend ==
  [][ /\ \A m \in DOMAIN mailer'.sends \ DOMAIN mailer.sends :
           /\ mailer'.sends[m].pc = "token"
           /\ mailer'.sends[m].handed.body = Undefined
      /\ \A m \in DOMAIN mailer.sends :
           LET before == mailer.sends[m]
               after == mailer'.sends[m]
           IN  /\ (before.pc = "token" /\ after.pc # "token") =>
                     IF mailer.accessToken \in {"absent", "expiring"}
                     THEN \/ /\ after.pc = "lookup"
                             /\ mailer'.accessToken = "valid"
                             /\ mailer'.transporter = "ready"
                          \/ /\ after.pc = "done"
                             /\ after.raisedAt \in {"refresh", "create", "verify"}
                             /\ after.returned.status = "failed"
                             /\ after.handed.body = Undefined
                     ELSE /\ after.pc = "lookup"
                          /\ mailer'.accessToken = mailer.accessToken
                          /\ mailer'.transporter = mailer.transporter
               /\ after.handed # before.handed => before.pc = "send"
               /\ (after.pc = "send" /\ before.pc # "send") => before.pc = "lookup"
               /\ (after.pc = "lookup" /\ before.pc # "lookup") => before.pc = "token"
    ]_vars

\* A sendEmail whose check refreshed the credential and whose new transporter
\* failed verification ended 'failed' without handing a mail to the transport.
C32_Witness ==
  \E m \in DOMAIN mailer.sends :
    /\ mailer.sends[m].pc = "done"
    /\ mailer.sends[m].raisedAt = "verify"
    /\ mailer.sends[m].returned.status = "failed"
    /\ mailer.sends[m].handed.body = Undefined
    /\ mailer.accessToken = "valid"

\* The number of elements of a sequence of requests or responses with an id.
CountId(xs, id) == Cardinality({ k \in DOMAIN xs : xs[k].id = id })

\* C33: the array sendBulkEmails returns holds exactly one response per
\* request it was given, with the same ids as often as the input has them.
C33_OneResponsePerRequest ==
  LET b == mailer.bulk
  IN  b.pc = "done" =>
        /\ Len(b.returned) = Len(b.notifications)
        /\ \A id \in 1..2 : CountId(b.returned, id) = CountId(b.notifications, id)

\* The six event types the specification names.
KnownTypes ==
  { "approval_requested", "escalation_triggered", "sla_breach",
    "work_item_assigned", "work_item_created", "work_item_completed" }

\* C34: an event handed to its handler starts a dispatch, with a request of the
\* type of the event, if and only if its type is one of the six known types; an
\* event of another type starts none and its handler ends without error.
C34_KnownEventsDispatch ==
  \A d \in DOMAIN deliveries :
    LET delivery == deliveries[d]
    IN  IF delivery.event \in KnownTypes
        THEN /\ delivery.call # 0
             /\ calls[delivery.call].caller = "event"
        ELSE /\ delivery.call = 0
             /\ delivery.handler = "ok"

\* The columns of a record that are not its lifecycle fields.
Frozen(row) ==
  [ id |-> row.id, tenantId |-> row.tenantId, recipientId |-> row.recipientId,
    type |-> row.type, channel |-> row.channel, priority |-> row.priority,
    templateId |-> row.templateId, data |-> row.data,
    scheduledAt |-> row.scheduledAt, expiresAt |-> row.expiresAt,
    metadata |-> row.metadata ]

\* C35: no step removes a record or changes its tenantId, recipientId, type,
\* channel, priority, templateId, data, scheduledAt, expiresAt or metadata.
C35_RequestFieldsFrozen ==
  [][ \A i \in DOMAIN notifications :
        /\ i \in DOMAIN notifications'
        /\ Frozen(notifications'[i]) = Frozen(notifications[i]) ]_vars

\* A dispatch wrote 'sent' and its timestamp to its record, which still holds
\* what the request was saved with.
C35_Witness ==
  \E c \in DOMAIN calls :
    /\ Done(c)
    /\ calls[c].notificationId # NoId
    /\ RowOf(c).status = "sent"
    /\ RowOf(c).sentAt # NULL
    /\ Frozen(RowOf(c)) = Frozen(NewRow(calls[c].notificationId, calls[c].request))

\* C36: once close() has been called, no callback of the sweep timer runs: no
\* tick pulls a page, and none ends empty or in the catch block.
C36_NoTickAfterClose ==
  [][ shutdown # "none" => (Len(sweeps') = Len(sweeps) /\ ticks' = ticks) ]_vars

\* close() has returned while a pending row is due, and no tick pulled it.
C36_Witness ==
  /\ shutdown = "done"
  /\ processingInterval = "null"
  /\ PendingDue # {}
  /\ sweeps = <<>>

\* C37: no message this service published starts a dispatch: every dispatch
\* was started by the API, by a sweep pull or by a message of another service.
C37_NoSelfTriggeredDispatch ==
  \A d \in DOMAIN deliveries :
    deliveries[d].origin # 0 => deliveries[d].call = 0

\* C38: when the dispatch of a record a sweep tick pulled has completed, the
\* status of that record is no longer 'pending'.
C38_PulledRowLeavesPending ==
  \A c \in DOMAIN calls :
    (calls[c].caller = "sweep" /\ Done(c)) =>
      notifications[calls[c].entryId].status # "pending"

\* C39: once a reconnect has succeeded after the connection was lost, the
\* consumers are registered on the channel of the new connection.
C39_ConsumersAfterReconnect ==
  (mq.losses > 0 /\ Connected /\ mq.reconnect = "idle") => mq.consumers

\* C40: once MessageQueueService.close() has been called, the reconnect loop
\* is not running and the service holds no open connection.
C40_NoReconnectAfterClose ==
  mq.closed => (mq.reconnect = "idle" /\ mq.connection # "open")

====
